---------------------------- MODULE Spec2Model ----------------------------
(***************************************************************************)
(* YouPower backend: the ActionComment and Action models, the Cooperative  *)
(* model and the community router, as state machines over the document     *)
(* collections they read and write; the frontend's ActionsCtrl, as a state *)
(* machine over its $scope and the requests it has in flight; and the seed *)
(* script.                                                                 *)
(***************************************************************************)
EXTENDS Integers, Sequences, FiniteSets, TLC

VARIABLES
    focus,        \* which collection the run exercises (the collections share no state)
    ret,          \* the last callback invocation: op, requesting user, args, calls, err, res
    aComments,    \* ActionComment collection: comment id -> document
    acNext,       \* next ActionComment _id / creation date
    actions,      \* Action collection: action id -> document
    userDocs,     \* User collection: user id -> profile language and action buckets
    coops,        \* Cooperative collection: cooperative id -> document
    coopNext,     \* next Cooperative _id
    subNext,      \* next _id of an embedded cooperative action
    reqs,         \* community router: request slot -> the request being handled
    communities,  \* Community collection: community id -> document (its members)
    commNext,     \* next Community _id
    achievement,  \* user id -> the 'communitiesJoined' achievement counter
    cComments,    \* CommunityComment collection: comment id -> document
    ccNext,       \* next CommunityComment _id / creation date
    scope,        \* ActionsCtrl: the fields of $scope, the view and the popup shown
    inflight,     \* ActionsCtrl: the requests whose promise is not yet resolved
    currentUser,  \* ActionsCtrl: $scope.currentUser, the user's local actions and profile
    maxNumberShow, \* ActionsCtrl: $scope.maxNumberShow, the items shown of each list
    comments,     \* ActionsCtrl: $scope.comments, the comments loaded so far
    moreComments, \* ActionsCtrl: $scope.moreComments, action id -> more to load
    loads,        \* ActionsCtrl: the Actions.getComments requests sent, pending or answered
    seed,         \* the seed script: its position, defaultUserId, the error and exit status
    calls         \* calls of the models' rate whose findOne has answered and whose save has not

commentVars == <<aComments, acNext>>
actionVars == <<actions>>
userVars == <<userDocs>>
coopVars == <<coops, coopNext, subNext>>
routeVars == <<reqs, communities, commNext, achievement, cComments, ccNext>>
frontVars == <<scope, inflight>>
listVars == <<currentUser, maxNumberShow>>
pageVars == <<comments, moreComments, loads>>
seedVars == <<seed>>
callVars == <<calls>>

vars == <<focus, ret, commentVars, actionVars, userVars, coopVars, routeVars, frontVars,
          listVars, pageVars, seedVars, callVars>>

\* what the operations of one collection leave alone
notCommentVars ==
    <<focus, actionVars, userVars, coopVars, routeVars, frontVars, listVars, pageVars, seedVars,
      callVars>>
notActionVars ==
    <<focus, commentVars, userVars, coopVars, routeVars, frontVars, listVars, pageVars, seedVars,
      callVars>>
notCoopVars ==
    <<focus, commentVars, actionVars, userVars, routeVars, frontVars, listVars, pageVars, seedVars,
      callVars>>
notRouteVars ==
    <<focus, ret, commentVars, actionVars, userVars, coopVars, frontVars, listVars, pageVars, seedVars,
      callVars>>
notFrontVars ==
    <<focus, commentVars, actionVars, userVars, coopVars, routeVars, listVars, pageVars, seedVars,
      callVars>>
notPageVars ==
    <<focus, commentVars, actionVars, userVars, coopVars, routeVars, frontVars, listVars, seedVars,
      callVars>>
notSeedVars ==
    <<focus, ret, commentVars, coopVars, routeVars, frontVars, listVars, pageVars,
      callVars>>
notCallVars ==
    <<focus, ret, acNext, userVars, coopVars, routeVars, frontVars, listVars, pageVars,
      seedVars>>
notListVars ==
    <<focus, commentVars, actionVars, userVars, coopVars, routeVars, inflight, pageVars, seedVars,
      callVars>>

(***************************************************************************)
(* Bounds                                                                  *)
(***************************************************************************)
MaxComments == 1                \* comments ever created
MaxCoops == 1                   \* cooperatives ever created
MaxCoopActions == 2             \* embedded cooperative actions ever added
NumRaters == 5                  \* users rating the effort of one action
NumActions == 7                 \* stored actions when suggestions are drawn
MaxCommunities == 2             \* communities ever created
MaxCComments == 1               \* community comments ever created
MaxRequests == 2                \* requests the router handles at once
MaxThread == 3                  \* comments ever created in a thread of community comments
MaxSuggested == 2               \* suggested actions in one answer of the backend
MaxStateRequests == 1           \* User.actionState requests ActionsCtrl has in flight
MaxQueries == 1                 \* Actions.query requests ActionsCtrl has in flight
MaxLocal == 4                   \* actions in the local lists of $scope.currentUser
MaxLoads == 3                   \* Actions.getComments requests ActionsCtrl sends
MaxSeeded == 4                  \* actions in the data the seed script creates
MaxCalls == 2                   \* calls of rate in flight at once
MaxRuns == 3                    \* runs of the seed script, one after the other

Users == {1, 2}
NoUser == 0                     \* a null user, or one without _id
Unnamed == -1                   \* a user whose profile has no name
CommentActionIds == {1}         \* action ids comments are created under
QueryActionIds == {1, 2}        \* action ids requests name; no comment is under 2
CommentIds == 1..MaxComments
MissingCommentId == 0           \* an id no stored comment has

(***************************************************************************)
(* JavaScript values: undefined, numbers (integer part n, f = 1 for a      *)
(* trailing .5) and numeric strings.                                       *)
(***************************************************************************)
Undef == [k |-> "undef", n |-> 0, f |-> 0]
Num(i) == [k |-> "num", n |-> i, f |-> 0]
Half(i) == [k |-> "num", n |-> i, f |-> 1]      \* i + 0.5, i >= 0
Str(i) == [k |-> "str", n |-> i, f |-> 0]       \* the string "i"

Null == "null"                  \* callback error argument: no error
NoDoc == [none |-> TRUE]        \* a findOne that matched nothing
EmptyMap == [u \in {} |-> Undef]

\* _.isNumber(v)
IsNumber(v) == v.k = "num"

\* if (v): undefined, 0 are falsy; the numeric strings used here are non-empty
Truthy(v) == \/ v.k = "str"
             \/ v.k = "num" /\ (v.n # 0 \/ v.f # 0)

\* v !== i for an integer literal i
StrictNeq(v, i) == ~(v.k = "num" /\ v.n = i /\ v.f = 0)

(***************************************************************************)
(* ActionComment model                                                     *)
(***************************************************************************)
ACFound(c) == c \in DOMAIN aComments /\ aComments[c] # NoDoc

\* ratings: aComment.ratings || {}
CreateRatings(r) == IF r = Undef THEN EmptyMap ELSE r

\* number of entries of a ratings map m whose value is truthy
RECURSIVE CountLikes(_, _)
CountLikes(m, keys) ==
    IF keys = {} THEN 0
    ELSE LET u == CHOOSE x \in keys : TRUE
         IN  (IF Truthy(m[u].value) THEN 1 ELSE 0) + CountLikes(m, keys \ {u})

\* CalcUserRating that tests the stored value instead of the entry
CalcUserRatingTruthy(doc, userId) ==
    IF userId \in DOMAIN doc.ratings /\ Truthy(doc.ratings[userId].value)
    THEN [has |-> TRUE, value |-> doc.ratings[userId].value]
    ELSE [has |-> FALSE, value |-> Undef]

\* userRating is set only when the ratings map has an entry under String(userId)
CalcUserRating(doc, userId) ==
    IF userId \in DOMAIN doc.ratings
    THEN [has |-> TRUE, value |-> doc.ratings[userId].value]
    ELSE [has |-> FALSE, value |-> Undef]

\* calcRating(aComment, userId) applied to aComment.toObject()
calcRating(id, doc, userId) ==
    [_id |-> id, actionId |-> doc.actionId, userId |-> doc.userId,
     hasPicture |-> doc.hasPicture, date |-> doc.date,
     numLikes |-> CountLikes(doc.ratings, DOMAIN doc.ratings),
     userRating |-> CalcUserRating(doc, userId),
     hasRatings |-> FALSE]

\* ids of the stored comments matching a predicate, newest first
RECURSIVE SortByDateDesc(_)
SortByDateDesc(ids) ==
    IF ids = {} THEN << >>
    ELSE LET top == CHOOSE c \in ids : \A d \in ids : aComments[d].date <= aComments[c].date
         IN  <<top>> \o SortByDateDesc(ids \ {top})

\* .skip(skip).limit(limit); a null limit (0 here) does not limit
SkipLimit(s, skip, limit) ==
    LET rest == SubSeq(s, skip + 1, Len(s))
    IN  IF limit = 0 \/ Len(rest) <= limit THEN rest ELSE SubSeq(rest, 1, limit)

\* one invocation of the callback cb(err, res); user is the requesting user
RetArgs(op, user, args, err, res) ==
    [op |-> op, user |-> user, args |-> args, calls |-> 1, err |-> err, res |-> res]
Ret(op, user, err, res) == RetArgs(op, user, << >>, err, res)

\* exports.create; ratings is the ratings field of the object passed in
ACCreate(u, a, ratings) ==
    /\ acNext <= MaxComments
    /\ LET doc == [actionId |-> a, userId |-> u, hasPicture |-> FALSE,
                   ratings |-> CreateRatings(ratings), date |-> acNext]
       IN  /\ aComments' = [aComments EXCEPT ![acNext] = doc]
           /\ ret' = Ret("ActionComment.create", u, Null, calcRating(acNext, doc, doc.userId))
    /\ acNext' = acNext + 1
    /\ UNCHANGED notCommentVars

\* exports.setHasPicture; requester is the authenticated user of the upload request
ACSetHasPicture(requester, c, value) ==
    /\ IF ~ACFound(c)
       THEN /\ ret' = Ret("ActionComment.setHasPicture", requester, "aComment not found!", Undef)
            /\ UNCHANGED aComments
       ELSE LET doc == [aComments[c] EXCEPT !.hasPicture = value]
            IN  /\ aComments' = [aComments EXCEPT ![c] = doc]
                /\ ret' = Ret("ActionComment.setHasPicture", requester, Null,
                              calcRating(c, doc, NoUser))
    /\ UNCHANGED <<acNext, notCommentVars>>

ACList(ids, limit, skip, userId) ==
    LET found == SkipLimit(SortByDateDesc(ids), skip, limit)
    IN  [i \in 1..Len(found) |-> calcRating(found[i], aComments[found[i]], userId)]

\* exports.get
ACGet(a, limit, skip, user) ==
    /\ ret' = Ret("ActionComment.get", user, Null,
                  ACList({c \in CommentIds : ACFound(c) /\ aComments[c].actionId = a},
                         limit, skip, user))
    /\ UNCHANGED <<commentVars, notCommentVars>>

\* exports.getByUser
ACGetByUser(user, limit, skip) ==
    /\ ret' = Ret("ActionComment.getByUser", user, Null,
                  ACList({c \in CommentIds : ACFound(c) /\ aComments[c].userId = user},
                         limit, skip, user))
    /\ UNCHANGED <<commentVars, notCommentVars>>

\* exports.delete
ACDelete(a, c) ==
    LET hit == {d \in DOMAIN aComments : ACFound(d) /\ aComments[d].actionId = a /\ d = c}
    IN  /\ aComments' = [d \in DOMAIN aComments |-> IF d \in hit THEN NoDoc ELSE aComments[d]]
        /\ ret' = RetArgs("ActionComment.delete", NoUser, [actionId |-> a, commentId |-> c],
                          Null, Cardinality(hit))
        /\ UNCHANGED <<acNext, notCommentVars>>

\* the value exports.rate stores under ratings[user._id]
ACRateEntry(rating) == [value |-> rating]

\* ACRatingInvalid as a range check that lets 2 through
ACRatingOutOfRange(rating) == rating.n < 0 \/ rating.n > 2

\* only allow values 0, 1
ACRatingInvalid(rating) == StrictNeq(rating, 0) /\ StrictNeq(rating, 1)

\* m[key] = entry on a plain object
MapSet(m, key, entry) ==
    [x \in DOMAIN m \cup {key} |-> IF x = key THEN entry ELSE m[x]]

\* exports.rate
ACRate(a, c, user, rating) ==
    LET op == "ActionComment.rate"
        args == [actionId |-> a, commentId |-> c, rating |-> rating]
    IN  /\ UNCHANGED <<acNext, notCommentVars>>
        /\ IF user = NoUser
           THEN /\ ret' = RetArgs(op, user, args, "Missing/invalid user", Undef)
                /\ UNCHANGED aComments
           ELSE IF ~IsNumber(rating)
           THEN /\ ret' = RetArgs(op, user, args, "Missing/invalid rating", Undef)
                /\ UNCHANGED aComments
           ELSE IF ~(ACFound(c) /\ aComments[c].actionId = a)
           THEN /\ ret' = RetArgs(op, user, args, "Action comment not found", Undef)
                /\ UNCHANGED aComments
           ELSE IF ACRatingInvalid(rating)
           THEN /\ ret' = RetArgs(op, user, args, "invalid rating! should be 0 or 1", Undef)
                /\ UNCHANGED aComments
           ELSE LET doc == [aComments[c] EXCEPT
                              !.ratings = MapSet(@, user, ACRateEntry(rating))]
                IN  /\ aComments' = [aComments EXCEPT ![c] = doc]
                    /\ ret' = RetArgs(op, user, args, Null, calcRating(c, doc, user))

(***************************************************************************)
(* Action model                                                            *)
(***************************************************************************)
ActionIds == {1}
MissingActionId == 0            \* an id no stored action has
Raters == 1..NumRaters          \* the users rating one action's effort
SuggestIds == 1..NumActions     \* the actions suggestions are drawn from
Languages == {"Italian", "Swedish", "English"}
Buckets == {"done", "declined", "na", "pending", "inProgress"}
EmptyBuckets == [b \in Buckets |-> {}]

UserDoc(u, language, buckets) == [_id |-> u, language |-> language, actions |-> buckets]

\* a stored action; nameIt/nameSe and their descriptions are optional fields
ActionDoc(a) ==
    [name |-> Str(10 * a), description |-> Str(10 * a + 1),
     nameIt |-> IF a % 2 = 1 THEN Str(10 * a + 2) ELSE Undef,
     descriptionIt |-> IF a % 4 = 1 THEN Str(10 * a + 3) ELSE Undef,
     nameSe |-> IF a % 3 # 0 THEN Str(10 * a + 4) ELSE Undef,
     descriptionSe |-> IF a % 3 = 1 THEN Str(10 * a + 5) ELSE Undef,
     effort |-> Num(3), date |-> a, ratings |-> << >>]

AFound(a) == a \in DOMAIN actions

\* a || b
OrElse(a, b) == IF Truthy(a) THEN a ELSE b

\* v < i and v > i for an integer literal i, after ToNumber(v) (NaN for undefined)
LessThan(v, i) == v.k \in {"num", "str"} /\ v.n < i
GreaterThan(v, i) == v.k \in {"num", "str"} /\ (v.n > i \/ (v.n = i /\ v.f = 1))

\* parseInt(v) of a non-negative number
ParseInt(v) == [k |-> "num", n |-> v.n, f |-> 0]

\* position of the entry keyed by user u in an ordered ratings map, 0 when absent
RIndex(rs, u) ==
    IF \E i \in 1..Len(rs) : rs[i].uid = u
    THEN CHOOSE i \in 1..Len(rs) : rs[i].uid = u
    ELSE 0

\* RSet that keeps the older entries of the user
RSetAppend(rs, u, entry) == Append(rs, entry)

\* ratings[u] = entry: an existing key keeps its place, a new key goes last
RSet(rs, u, entry) ==
    IF RIndex(rs, u) = 0 THEN Append(rs, entry) ELSE [rs EXCEPT ![RIndex(rs, u)] = entry]

\* includeRatingStats
RECURSIVE includeRatingStats(_)
includeRatingStats(rs) ==
    IF rs = << >> THEN 0
    ELSE (IF Truthy(Head(rs).rating) THEN 1 ELSE 0) + includeRatingStats(Tail(rs))

RECURSIVE EffortsOf(_)
EffortsOf(rs) ==
    IF rs = << >> THEN << >>
    ELSE (IF Truthy(Head(rs).effort) THEN <<Head(rs).effort>> ELSE << >>) \o EffortsOf(Tail(rs))

\* the array includeMeanEffort builds
EffortEstimates(effort, rs) == [i \in 1..5 |-> effort] \o EffortsOf(rs)

\* includeMeanEffort: effortEstimates[parseInt(effortEstimates.length / 2)]
includeMeanEffort(effort, rs) ==
    LET est == EffortEstimates(effort, rs)
    IN  est[(Len(est) \div 2) + 1]

AUserRating(rs, u) ==
    IF RIndex(rs, u) # 0
    THEN [has |-> TRUE, value |-> rs[RIndex(rs, u)].rating]
    ELSE [has |-> FALSE, value |-> Undef]

\* number of users with the action in progress or done
NumUsersDoing(a) ==
    Cardinality({u \in DOMAIN userDocs : a \in userDocs[u].actions["inProgress"]
                                         \/ a \in userDocs[u].actions["done"]})

\* the object exports.get passes to its callback
AGetObject(a, u) ==
    LET doc == actions[a]
        lang == userDocs[u].language
    IN  [_id |-> a,
         name |-> IF lang = "Italian" THEN OrElse(doc.nameIt, doc.name)
                  ELSE IF lang = "Swedish" THEN OrElse(doc.nameSe, doc.name)
                  ELSE doc.name,
         description |-> IF lang = "Italian" THEN OrElse(doc.descriptionIt, doc.description)
                         ELSE IF lang = "Swedish" THEN OrElse(doc.descriptionSe, doc.description)
                         ELSE doc.description,
         numLikes |-> includeRatingStats(doc.ratings),
         effort |-> includeMeanEffort(doc.effort, doc.ratings),
         userRating |-> AUserRating(doc.ratings, u),
         hasRatings |-> TRUE, ratings |-> doc.ratings,
         numComments |-> Cardinality({c \in CommentIds : ACFound(c) /\ aComments[c].actionId = a}),
         numUsers |-> NumUsersDoing(a)]

\* exports.get
AGet(a, u) ==
    /\ ret' = IF ~AFound(a) THEN RetArgs("Action.get", u, [id |-> a], "Action not found", Undef)
              ELSE RetArgs("Action.get", u, [id |-> a], Null, AGetObject(a, u))
    /\ UNCHANGED <<actionVars, notActionVars>>

\* action ids, newest first
RECURSIVE ActionsByDateDesc(_)
ActionsByDateDesc(ids) ==
    IF ids = {} THEN << >>
    ELSE LET top == CHOOSE a \in ids : \A b \in ids : actions[b].date <= actions[a].date
         IN  <<top>> \o ActionsByDateDesc(ids \ {top})

\* one element of the list exports.all passes to its callback
AAllObject(a, includeRatings, u) ==
    LET doc == actions[a]
    IN  [_id |-> a, name |-> doc.name, description |-> doc.description,
         numLikes |-> includeRatingStats(doc.ratings),
         effort |-> includeMeanEffort(doc.effort, doc.ratings),
         userRating |-> AUserRating(doc.ratings, u),
         hasRatings |-> includeRatings,
         ratings |-> IF includeRatings THEN doc.ratings ELSE << >>]

\* exports.all
AAll(limit, skip, includeRatings, u) ==
    LET found == SkipLimit(ActionsByDateDesc(DOMAIN actions), skip, limit)
    IN  /\ ret' = RetArgs("Action.all", u, [includeRatings |-> includeRatings], Null,
                          [i \in 1..Len(found) |-> AAllObject(found[i], includeRatings, u)])
        /\ UNCHANGED <<actionVars, notActionVars>>

\* the entry exports.rate stores under ratings[user._id]
ARateEntry(u, rating, effort, old) ==
    [uid |-> u,
     rating |-> IF IsNumber(rating) THEN ParseInt(rating) ELSE old.rating,
     effort |-> IF IsNumber(effort) THEN ParseInt(effort) ELSE old.effort]

\* the error of exports.rate's sanity checks, Null when they pass
ARateCheck(exists, rating, effort) ==
    IF exists
    THEN IF IsNumber(rating) /\ StrictNeq(rating, 1) /\ StrictNeq(rating, 0)
         THEN "Invalid rating estimate"
         ELSE IF LessThan(effort, 1) \/ GreaterThan(effort, 5)
         THEN "Invalid effort estimate"
         ELSE Null
    ELSE IF IsNumber(rating) /\ StrictNeq(rating, 1) /\ StrictNeq(rating, 0)
         THEN "Missing/invalid rating"
         ELSE IF IsNumber(effort) /\ (LessThan(effort, 1) \/ GreaterThan(effort, 5))
         THEN "Missing/invalid effort estimate"
         ELSE Null

\* exports.rate
ARate(a, u, rating, effort) ==
    LET op == "Action.rate"
        args == [id |-> a, rating |-> rating, effort |-> effort]
    IN
    /\ UNCHANGED notActionVars
    /\ IF u \in {NoUser, Unnamed}
       THEN /\ ret' = RetArgs(op, u, args, "Missing/invalid user", Undef)
            /\ UNCHANGED actionVars
       ELSE IF ~AFound(a)
       THEN /\ ret' = RetArgs(op, u, args, "Action not found", Undef)
            /\ UNCHANGED actionVars
       ELSE LET rs == actions[a].ratings
                exists == RIndex(rs, u) # 0
                old == IF exists THEN rs[RIndex(rs, u)]
                       ELSE [uid |-> u, rating |-> Undef, effort |-> Undef]
                err == ARateCheck(exists, rating, effort)
            IN  IF err # Null
                THEN /\ ret' = RetArgs(op, u, args, err, Undef)
                     /\ UNCHANGED actionVars
                ELSE /\ actions' = [actions EXCEPT
                                      ![a].ratings = RSet(rs, u, ARateEntry(u, rating, effort, old))]
                     /\ ret' = RetArgs(op, u, args, Null,
                                       [_id |-> a, hasRatings |-> TRUE,
                                        ratings |-> actions'[a].ratings])

\* array[i] and array[j] exchanged
Swap(array, i, j) == [array EXCEPT ![i] = array[j], ![j] = array[i]]

\* the values of Math.floor(Math.random() * (i + 1)), one per index i (1-based: 1..i)
RECURSIVE DrawsUpTo(_)
DrawsUpTo(n) ==
    IF n = 0 THEN {<< >>}
    ELSE {Append(d, j) : d \in DrawsUpTo(n - 1), j \in 1..n}

ShuffleDraws == DrawsUpTo(NumActions)

\* shuffleArray from index i down, with draws[i] the index drawn at i
RECURSIVE ShuffleFrom(_, _, _)
ShuffleFrom(array, i, draws) ==
    IF i <= 1 THEN array
    ELSE ShuffleFrom(Swap(array, i, draws[i]), i - 1, draws)

shuffleArray(array, draws) == ShuffleFrom(array, Len(array), draws)

\* BucketKeys that forgets the pending bucket
BucketKeysNoPending(user) == UNION {user.actions[b] : b \in Buckets \ {"pending"}}

\* _.keys of the five buckets of user.actions
BucketKeys(user) == UNION {user.actions[b] : b \in Buckets}

\* ids in the order the collection returns them
RECURSIVE InIdOrder(_)
InIdOrder(ids) ==
    IF ids = {} THEN << >>
    ELSE LET lo == CHOOSE a \in ids : \A b \in ids : a <= b
         IN  <<lo>> \o InIdOrder(ids \ {lo})

\* the Action.find of exports.getSuggested
SuggestedFind(user) ==
    InIdOrder({a \in DOMAIN actions :
                 /\ a \notin BucketKeys(user)
                 /\ user.language = "Italian" => actions[a].nameIt # Undef
                 /\ user.language = "Swedish" => actions[a].nameSe # Undef})

SuggestedCap == 5

\* if (actions.length > 5) actions = shuffleArray(actions).slice(0, 5)
SuggestedPicks(found) ==
    IF Len(found) > SuggestedCap
    THEN {SubSeq(shuffleArray(found, d), 1, SuggestedCap) : d \in ShuffleDraws}
    ELSE {found}

\* SuggestedObject that falls back to the default description, as exports.get does
SuggestedObjectFallback(a, language) ==
    LET doc == actions[a]
    IN  [_id |-> a,
         name |-> IF language = "Italian" THEN doc.nameIt
                  ELSE IF language = "Swedish" THEN doc.nameSe ELSE doc.name,
         description |-> IF language = "Italian"
                         THEN OrElse(doc.descriptionIt, doc.description)
                         ELSE IF language = "Swedish"
                         THEN OrElse(doc.descriptionSe, doc.description)
                         ELSE doc.description,
         effort |-> doc.effort]

\* one returned action: the selected fields, renamed for Italian and Swedish
SuggestedObject(a, language) ==
    LET doc == actions[a]
    IN  [_id |-> a,
         name |-> IF language = "Italian" THEN doc.nameIt
                  ELSE IF language = "Swedish" THEN doc.nameSe ELSE doc.name,
         description |-> IF language = "Italian" THEN doc.descriptionIt
                         ELSE IF language = "Swedish" THEN doc.descriptionSe
                         ELSE doc.description,
         effort |-> doc.effort]

\* exports.getSuggested
AGetSuggested(u) ==
    /\ \E picks \in SuggestedPicks(SuggestedFind(userDocs[u])) :
          ret' = Ret("Action.getSuggested", u, Null,
                     [i \in 1..Len(picks) |-> SuggestedObject(picks[i], userDocs[u].language)])
    /\ UNCHANGED <<actionVars, notActionVars>>

(***************************************************************************)
(* Cooperative model                                                       *)
(***************************************************************************)
CoopIds == 1..MaxCoops
MissingCoopId == 0              \* an id no stored cooperative has
SubIds == 1..MaxCoopActions
MissingSubId == 0               \* an id no embedded action has

CoopFound(id) == id \in CoopIds /\ coops[id] # NoDoc

\* name, description and date of an embedded action, as the request gives them
SubAction(x) == [name |-> Str(x), description |-> Str(x + 10), date |-> x]

\* exports.create; the schema leaves meters unset and actions empty
CoopCreate(x) ==
    /\ coopNext <= MaxCoops
    /\ coops' = [coops EXCEPT ![coopNext] =
                    [name |-> Str(x), yearOfConst |-> Num(x), area |-> Num(x + 10),
                     meters |-> Undef, actions |-> << >>]]
    /\ coopNext' = coopNext + 1
    /\ ret' = Ret("Cooperative.create", NoUser, Null, [_id |-> coopNext, doc |-> coops'[coopNext]])
    /\ UNCHANGED <<subNext, notCoopVars>>

\* exports.get
CoopGet(id) ==
    /\ ret' = IF ~CoopFound(id)
              THEN RetArgs("Cooperative.get", NoUser, [id |-> id], "Cooperative not found", Undef)
              ELSE RetArgs("Cooperative.get", NoUser, [id |-> id], Null,
                           [_id |-> id, doc |-> coops[id]])
    /\ UNCHANGED <<coopVars, notCoopVars>>

\* exports.update: findByIdAndUpdate passes the document it found, or null
CoopUpdate(id, x) ==
    /\ coops' = IF CoopFound(id)
                THEN [coops EXCEPT ![id].name = Str(x), ![id].yearOfConst = Num(x),
                                   ![id].area = Num(x + 10)]
                ELSE coops
    /\ ret' = RetArgs("Cooperative.update", NoUser, [id |-> id], Null,
                      IF CoopFound(id) THEN [_id |-> id, doc |-> coops[id]] ELSE Undef)
    /\ UNCHANGED <<coopNext, subNext, notCoopVars>>

\* SubIndex that takes the id for a position in the list
SubIndexByPosition(list, sub) == IF sub \in 1..Len(list) THEN sub ELSE 0

\* cooperative.actions.id(actionId): position of the embedded action, 0 for null
SubIndex(list, sub) ==
    IF \E i \in 1..Len(list) : list[i]._id = sub
    THEN CHOOSE i \in 1..Len(list) : list[i]._id = sub
    ELSE 0

\* RemoveAt that drops the rest of the list as well
RemoveFrom(list, i) == SubSeq(list, 1, i - 1)

\* action.remove() on an embedded document
RemoveAt(list, i) == SubSeq(list, 1, i - 1) \o SubSeq(list, i + 1, Len(list))

\* exports.addAction
CoopAddAction(id, x) ==
    LET op == "Cooperative.addAction"
        args == [id |-> id, sub |-> MissingSubId, action |-> SubAction(x)]
    IN  IF ~CoopFound(id)
        THEN /\ ret' = RetArgs(op, NoUser, args, "Cooperative not found", Undef)
             /\ UNCHANGED <<coopVars, notCoopVars>>
        ELSE /\ subNext <= MaxCoopActions
             /\ coops' = [coops EXCEPT ![id].actions =
                             Append(@, [_id |-> subNext] @@ SubAction(x))]
             /\ subNext' = subNext + 1
             /\ ret' = RetArgs(op, NoUser, args, Null, [_id |-> id, doc |-> coops'[id]])
             /\ UNCHANGED <<coopNext, notCoopVars>>

\* exports.updateAction
CoopUpdateAction(id, sub, x) ==
    LET op == "Cooperative.updateAction"
        args == [id |-> id, sub |-> sub, action |-> SubAction(x)]
    IN  IF ~CoopFound(id)
        THEN /\ ret' = RetArgs(op, NoUser, args, "Cooperative not found", Undef)
             /\ UNCHANGED <<coopVars, notCoopVars>>
        ELSE IF SubIndex(coops[id].actions, sub) = 0
        THEN /\ ret' = RetArgs(op, NoUser, args, "Cooperative action not found", Undef)
             /\ UNCHANGED <<coopVars, notCoopVars>>
        ELSE LET i == SubIndex(coops[id].actions, sub)
                 new == SubAction(x)
             IN  /\ coops' = [coops EXCEPT ![id].actions[i].name = new.name,
                                           ![id].actions[i].date = new.date,
                                           ![id].actions[i].description = new.description]
                 /\ ret' = RetArgs(op, NoUser, args, Null, [_id |-> id, doc |-> coops'[id]])
                 /\ UNCHANGED <<coopNext, subNext, notCoopVars>>

\* exports.deleteAction
CoopDeleteAction(id, sub) ==
    LET op == "Cooperative.deleteAction"
        args == [id |-> id, sub |-> sub]
    IN  IF ~CoopFound(id)
        THEN /\ ret' = RetArgs(op, NoUser, args, "Cooperative not found", Undef)
             /\ UNCHANGED <<coopVars, notCoopVars>>
        ELSE IF SubIndex(coops[id].actions, sub) = 0
        THEN /\ ret' = RetArgs(op, NoUser, args, "Cooperative action not found", Undef)
             /\ UNCHANGED <<coopVars, notCoopVars>>
        ELSE /\ coops' = [coops EXCEPT ![id].actions =
                             RemoveAt(@, SubIndex(coops[id].actions, sub))]
             /\ ret' = RetArgs(op, NoUser, args, Null, [_id |-> id, doc |-> coops'[id]])
             /\ UNCHANGED <<coopNext, subNext, notCoopVars>>

(***************************************************************************)
(* Community router                                                        *)
(***************************************************************************)
Reqs == 1..MaxRequests
CommunityIds == 1..MaxCommunities
MissingCommunityId == 0         \* a MongoId no stored community has
BadId == -1                     \* a path segment that is not a MongoId
ListSegment == -2               \* the path segment "list"
PathIds == CommunityIds \cup {MissingCommunityId, BadId}
CCommentIds == 1..MaxCComments
MissingCCommentId == 0          \* a MongoId no stored community comment has
NoLength == -1                  \* communities is undefined: it has no length

\* req.checkParams(...).isMongoId(); req.validationErrors()
IsMongoId(id) == id \notin {BadId, ListSegment}

ValidationErrors == "There have been validation errors"

IdleReq ==
    [pc |-> "idle", route |-> "none", user |-> NoUser, id |-> MissingCommunityId,
     commentId |-> MissingCCommentId, body |-> [limit |-> Undef, skip |-> Undef],
     status |-> 0, sends |-> 0, err |-> Null, res |-> << >>, invoked |-> {},
     logs |-> << >>, old |-> 0, n |-> 0]

\* a slot takes a request once the handler of its last one has run to its end
Free(r) == reqs[r].pc \in {"idle", "done", "threw"}

\* LogEntry without the user
LogEntryAnonymous(u, category, type) ==
    [userId |-> NoUser, category |-> category, type |-> type]

\* Log.create({userId: req.user._id, category: ..., type: ...})
LogEntry(u, category, type) == [userId |-> u, category |-> category, type |-> type]

\* res.status(500).send('There have been validation errors: ' + util.inspect(err))
Rejected(route, u, id) ==
    [IdleReq EXCEPT !.pc = "done", !.route = route, !.user = u, !.id = id,
                    !.status = 500, !.sends = 1, !.err = ValidationErrors]

\* res.successRes(err, json): the error with status 500, or the json
SuccessRes(req, err) ==
    [req EXCEPT !.status = IF err # Null THEN 500 ELSE 200, !.sends = @ + 1, !.err = err]

\* a handler that delegates to one model operation with res.successRes as its
\* callback and then logs
Delegated(route, u, id, op, err, category, type) ==
    SuccessRes([IdleReq EXCEPT !.pc = "done", !.route = route, !.user = u, !.id = id,
                               !.invoked = {op},
                               !.logs = <<LogEntry(u, category, type)>>], err)

CommunityFound(id) == id \in CommunityIds /\ communities[id] # NoDoc
CCFound(c) == c \in DOMAIN cComments /\ cComments[c] # NoDoc

\* the error of a query that casts id to an ObjectId
CastError(id) == IF IsMongoId(id) THEN Null ELSE "CastError"

\* router.post('/:communityId/comment') and CommunityComment.create; the
\* document takes its communityId from the request body (0 when it has none)
PostComment(r, u, id, bodyCommunityId) ==
    LET err == IF bodyCommunityId = MissingCommunityId THEN "ValidationError" ELSE Null
    IN  /\ Free(r)
        /\ err = Null => ccNext \in DOMAIN cComments
        /\ cComments' = IF err # Null THEN cComments
                        ELSE [cComments EXCEPT ![ccNext] =
                                 [communityId |-> bodyCommunityId, userId |-> u, date |-> ccNext]]
        /\ ccNext' = IF err # Null THEN ccNext ELSE ccNext + 1
        /\ reqs' = [reqs EXCEPT ![r] =
                       Delegated("POST /:communityId/comment", u, id, "CommunityComment.create",
                                 err, "Community Comments", "create")]
        /\ UNCHANGED <<communities, commNext, achievement, notRouteVars>>

RECURSIVE CCSortByDateAsc(_)
CCSortByDateAsc(ids) ==
    IF ids = {} THEN << >>
    ELSE LET top == CHOOSE c \in ids : \A d \in ids : cComments[c].date <= cComments[d].date
         IN  <<top>> \o CCSortByDateAsc(ids \ {top})

\* .sort({'date': -1}) of community comments
RECURSIVE CCSortByDateDesc(_)
CCSortByDateDesc(ids) ==
    IF ids = {} THEN << >>
    ELSE LET top == CHOOSE c \in ids : \A d \in ids : cComments[d].date <= cComments[c].date
         IN  <<top>> \o CCSortByDateDesc(ids \ {top})

\* CommunityComment.get: the _ids of the comments it passes to its callback
CCGet(communityId, limit, skip) ==
    SkipLimit(CCSortByDateDesc({c \in DOMAIN cComments :
                                  CCFound(c) /\ cComments[c].communityId = communityId}),
              skip, limit)

\* router.get('/:communityId/comments'): req.body.limit || 10, req.body.skip || 0
GetComments(r, u, id, limit, skip) ==
    /\ Free(r)
    /\ reqs' = [reqs EXCEPT ![r] =
                   [Delegated("GET /:communityId/comments", u, id, "CommunityComment.get",
                              CastError(id), "Community Comments", "get")
                    EXCEPT !.body = [limit |-> limit, skip |-> skip],
                           !.res = IF CastError(id) # Null THEN << >>
                                   ELSE CCGet(id, OrElse(limit, Num(10)).n,
                                              OrElse(skip, Num(0)).n)]]
    /\ UNCHANGED <<communities, commNext, achievement, cComments, ccNext, notRouteVars>>

\* CCDeleteHit as a query on the _id alone
CCDeleteAnyParent(d, communityId, id) == CCFound(d) /\ d = id

\* CommunityComment.remove({communityId: communityId, _id: id}) matches comment d
CCDeleteHit(d, communityId, id) ==
    CCFound(d) /\ d = id /\ cComments[d].communityId = communityId

\* router.delete('/:communityId/comment/:commentId') and CommunityComment.delete
DeleteComment(r, u, id, c) ==
    /\ Free(r)
    /\ cComments' = [d \in DOMAIN cComments |->
                        IF IsMongoId(id) /\ CCDeleteHit(d, id, c)
                        THEN NoDoc ELSE cComments[d]]
    /\ reqs' = [reqs EXCEPT ![r] =
                   [Delegated("DELETE /:communityId/comment/:commentId", u, id,
                              "CommunityComment.delete", CastError(id),
                              "Community Comments", "delete")
                    EXCEPT !.commentId = c]]
    /\ UNCHANGED <<communities, commNext, achievement, ccNext, notRouteVars>>

\* router.post('/') and Community.create
PostCommunity(r, u) ==
    /\ Free(r)
    /\ commNext <= MaxCommunities
    /\ communities' = [communities EXCEPT ![commNext] = [members |-> {}]]
    /\ commNext' = commNext + 1
    /\ reqs' = [reqs EXCEPT ![r] =
                   Delegated("POST /", u, commNext, "Community.create", Null,
                             "Community", "create")]
    /\ UNCHANGED <<achievement, cComments, ccNext, notRouteVars>>

\* a handler that checks the id, delegates to a Community operation that
\* changes nothing here, and logs
Validated(r, route, u, id, op, type) ==
    /\ Free(r)
    /\ reqs' = [reqs EXCEPT ![r] =
                   IF ~IsMongoId(id) THEN Rejected(route, u, id)
                   ELSE Delegated(route, u, id, op,
                                  IF CommunityFound(id) THEN Null ELSE "Community not found",
                                  "Community", type)]
    /\ UNCHANGED <<communities, commNext, achievement, cComments, ccNext, notRouteVars>>

\* router.get('/:id')
GetCommunity(r, u, id) ==
    Validated(r, "GET /:id", u, id, "Community.getCommunityInfo", "get")

\* the communities User.getUserCommunities finds for a user
UserCommunities(u) ==
    {c \in CommunityIds : CommunityFound(c) /\ u \in communities[c].members}

\* router.get('/list') and User.getUserCommunities: the user's communities
ListCommunities(r, u) ==
    /\ Free(r)
    /\ reqs' = [reqs EXCEPT ![r] =
                   [Delegated("GET /list", u, ListSegment, "User.getUserCommunities", Null,
                              "Community", "listAll")
                    EXCEPT !.res = InIdOrder(UserCommunities(u))]]
    /\ UNCHANGED <<communities, commNext, achievement, cComments, ccNext, notRouteVars>>

\* the GET routes of one path segment, in the order of their registration
OneSegmentGets == <<"/:id", "/list">>

\* a route pattern matches a path of one segment
RouteMatches(route, seg) == route = "/:id" \/ (route = "/list" /\ seg = ListSegment)

\* the router hands a request to the first registered route that matches
FirstMatch(seg) ==
    OneSegmentGets[CHOOSE i \in 1..Len(OneSegmentGets) :
                      /\ RouteMatches(OneSegmentGets[i], seg)
                      /\ \A j \in 1..(i - 1) : ~RouteMatches(OneSegmentGets[j], seg)]

\* a GET request of one path segment; neither handler calls next()
GetSegment(r, u, seg) ==
    IF FirstMatch(seg) = "/:id" THEN GetCommunity(r, u, seg) ELSE ListCommunities(r, u)

\* router.get('/top/:id')
GetTop(r, u, id) ==
    Validated(r, "GET /top/:id", u, id, "Community.topActions", "top")

\* router.put('/rate/:id')
PutRate(r, u, id) ==
    Validated(r, "PUT /rate/:id", u, id, "Community.rate", "rate")

\* router.delete('/:id') and Community.delete
DeleteCommunity(r, u, id) ==
    /\ Free(r)
    /\ communities' = IF CommunityFound(id) THEN [communities EXCEPT ![id] = NoDoc]
                      ELSE communities
    /\ reqs' = [reqs EXCEPT ![r] =
                   IF ~IsMongoId(id) THEN Rejected("DELETE /:id", u, id)
                   ELSE Delegated("DELETE /:id", u, id, "Community.delete", Null,
                                  "Community", "delete")]
    /\ UNCHANGED <<commNext, achievement, cComments, ccNext, notRouteVars>>

\* router.post('/communityPicture/:communityId'): a validation error goes to
\* res.successRes as its err
PostPicture(r, u, id) ==
    /\ Free(r)
    /\ reqs' = [reqs EXCEPT ![r] =
                   IF ~IsMongoId(id)
                   THEN SuccessRes([IdleReq EXCEPT !.pc = "done", !.user = u, !.id = id,
                                       !.route = "POST /communityPicture/:communityId"],
                                   ValidationErrors)
                   ELSE Delegated("POST /communityPicture/:communityId", u, id,
                                  "common.uploadPicture", Null, "Community Picture", "create")]
    /\ UNCHANGED <<communities, commNext, achievement, cComments, ccNext, notRouteVars>>

\* router.put('/join/:id'): the handler itself, up to the call of
\* Community.addMember and Log.create
PutJoin(r, u, id) ==
    /\ Free(r)
    /\ reqs' = [reqs EXCEPT ![r] =
                   IF ~IsMongoId(id) THEN Rejected("PUT /join/:id", u, id)
                   ELSE [IdleReq EXCEPT !.pc = "addMember", !.route = "PUT /join/:id",
                                        !.user = u, !.id = id,
                                        !.invoked = {"Community.addMember"},
                                        !.logs = <<LogEntry(u, "Community", "join")>>]]
    /\ UNCHANGED <<communities, commNext, achievement, cComments, ccNext, notRouteVars>>

\* Community.addMember and its callback: fetch the user's communities when
\* it succeeded, then res.successRes(err, community)
JoinAddMember(r) ==
    LET req == reqs[r]
        err == IF CommunityFound(req.id) THEN Null ELSE "Community not found"
    IN  /\ req.pc = "addMember"
        /\ communities' = IF err = Null
                          THEN [communities EXCEPT ![req.id].members = @ \cup {req.user}]
                          ELSE communities
        /\ reqs' = [reqs EXCEPT ![r] =
                       SuccessRes([req EXCEPT
                                     !.pc = IF err = Null THEN "communities" ELSE "done",
                                     !.invoked = IF err = Null
                                                 THEN @ \cup {"User.getUserCommunities"}
                                                 ELSE @], err)]
        /\ UNCHANGED <<commNext, achievement, cComments, ccNext, notRouteVars>>

\* the callback of User.getUserCommunities, whose err is not looked at:
\* achievements.updateAchievement is called and reads the stored counter
JoinCommunities(r, failed) ==
    LET req == reqs[r]
    IN  /\ req.pc = "communities"
        /\ reqs' = [reqs EXCEPT ![r] =
                       [req EXCEPT !.pc = "achievement",
                                   !.invoked = @ \cup {"achievements.updateAchievement"},
                                   !.old = achievement[req.user],
                                   !.n = IF failed THEN NoLength
                                         ELSE Cardinality(UserCommunities(req.user))]]
        /\ UNCHANGED <<communities, commNext, achievement, cComments, ccNext, notRouteVars>>

\* JoinProgress without the old value
JoinProgressLength(oldVal, length) == length

\* Math.max(oldVal, communities.length)
JoinProgress(oldVal, length) == IF oldVal >= length THEN oldVal ELSE length

\* achievements.updateAchievement stores what the update function returns
\* for the counter it read; the function throws on an undefined communities
JoinAchievement(r) ==
    LET req == reqs[r]
    IN  /\ req.pc = "achievement"
        /\ IF req.n = NoLength
           THEN /\ reqs' = [reqs EXCEPT ![r].pc = "threw"]
                /\ UNCHANGED achievement
           ELSE /\ reqs' = [reqs EXCEPT ![r].pc = "done"]
                /\ achievement' = [achievement EXCEPT
                                     ![req.user] = JoinProgress(req.old, req.n)]
        /\ UNCHANGED <<communities, commNext, cComments, ccNext, notRouteVars>>

(***************************************************************************)
(* ActionsCtrl                                                             *)
(***************************************************************************)
preferredNumberOfActions == 3
maxNumberOfActions == 6
sNr == 2
nrToLoad == 20

\* $scope.idx = -1; $scope.lastActionUsed = true; $scope.suggestedActions = []
LoadSuggested(sc) ==
    [sc EXCEPT !.idx = -1, !.lastActionUsed = TRUE, !.suggestedActions = << >>]

\* $scope after the controller function has run, with n actions in progress:
\* it has called loadSuggestedActions; no tip and no popup is shown
StartScope(n) ==
    LoadSuggested([idx |-> -1, lastActionUsed |-> TRUE, suggestedActions |-> << >>,
                   inProgress |-> n, numberOfCurrentActions |-> Undef,
                   screen |-> "start", tip |-> MissingActionId, popup |-> "none"])

\* $ionicPopup.alert / $ionicPopup.confirm
Popup(sc, kind) == [sc EXCEPT !.popup = kind]

\* $scope.gotoYourActions()
GotoYourActions(sc) == [sc EXCEPT !.screen = "yourActions"]

\* $state.go('main.actions.action', {id: $scope.suggestedActions[$scope.idx]._id})
GoTip(sc) ==
    [sc EXCEPT !.screen = "tip", !.tip = sc.suggestedActions[sc.idx + 1]]

\* Advance without the test of lastActionUsed
AdvanceAlways(sc) == [sc EXCEPT !.idx = @ + 1, !.lastActionUsed = FALSE]

\* if ($scope.lastActionUsed) { $scope.idx++; $scope.lastActionUsed = false; }
Advance(sc) ==
    IF sc.lastActionUsed THEN [sc EXCEPT !.idx = @ + 1, !.lastActionUsed = FALSE] ELSE sc

\* rehearseActions over the local actions it collected: with none the alert,
\* else they become the suggestions and showNextTip shows the first of them
RehearseActions(sc, local) ==
    IF Len(local) = 0 THEN Popup(sc, "noRehearse")
    ELSE GoTip(Advance([sc EXCEPT !.idx = -1, !.lastActionUsed = TRUE,
                                  !.suggestedActions = local]))

\* checkRehearse; setting is what isToRehearse() and isNotToRehearse() say of
\* the user's profile
CheckRehearse(sc, setting, local) ==
    CASE setting = "toRehearse" -> RehearseActions(sc, local)
      [] setting = "notToRehearse" -> Popup(sc, "changeSetting")
      [] OTHER -> Popup(sc, "askRehearse")

\* showNextTip
ShowNextTip(sc, setting, local) ==
    IF Len(Advance(sc).suggestedActions) > Advance(sc).idx
    THEN GoTip(Advance(sc))
    ELSE CheckRehearse(Advance(sc), setting, local)

\* numberOfCurrentActions > maxNumberOfActions
MoreThanMax(n) == n > maxNumberOfActions

\* numberOfCurrentActions > maxNumberOfActions - 1
TooMany(n) == n > maxNumberOfActions - 1

\* a handler ran; no callback of the backend models is involved
Handled(op, args) == ret' = RetArgs(op, NoUser, args, Null, Undef)

\* a user acts on the view only while no popup is open
Idle == scope.popup = "none"

\* addActions
AddActions(setting, local) ==
    LET n == scope.inProgress
        sc == [scope EXCEPT !.numberOfCurrentActions = Num(n)]
    IN  /\ Idle
        /\ scope' = IF n < preferredNumberOfActions THEN ShowNextTip(sc, setting, local)
                    ELSE IF TooMany(n) THEN Popup(sc, "tooMany")
                    ELSE Popup(sc, "askConfirmation")
        /\ Handled("addActions", << >>)
        /\ UNCHANGED <<inflight, notFrontVars>>

\* the callback of askConfirmation's popup: res is true for "Not now"
ConfirmationAnswered(res, setting, local) ==
    /\ scope.popup = "askConfirmation"
    /\ scope' = IF res THEN Popup(scope, "none")
                ELSE ShowNextTip(Popup(scope, "none"), setting, local)
    /\ Handled("askConfirmation.then", [res |-> res])
    /\ UNCHANGED <<inflight, notFrontVars>>

\* the callbacks of the alerts of alertTooManyActions and alertNoRehearseActions
AlertClosed ==
    /\ scope.popup \in {"tooMany", "noRehearse"}
    /\ scope' = GotoYourActions(Popup(scope, "none"))
    /\ Handled("alert.then", [popup |-> scope.popup])
    /\ UNCHANGED <<inflight, notFrontVars>>

\* the callback of askChangeRehearseSetting's popup
ChangeSettingAnswered(res) ==
    /\ scope.popup = "changeSetting"
    /\ scope' = IF res THEN [Popup(scope, "none") EXCEPT !.screen = "settings"]
                ELSE GotoYourActions(Popup(scope, "none"))
    /\ Handled("askChangeRehearseSetting.then", [res |-> res])
    /\ UNCHANGED <<inflight, notFrontVars>>

\* the callback of askRehearse's popup
RehearseAnswered(res, local) ==
    /\ scope.popup = "askRehearse"
    /\ scope' = IF res THEN RehearseActions(Popup(scope, "none"), local)
                ELSE GotoYourActions(Popup(scope, "none"))
    /\ Handled("askRehearse.then", [res |-> res])
    /\ UNCHANGED <<inflight, notFrontVars>>

\* showNextTip, called from a view
NextTip(setting, local) ==
    /\ Idle
    /\ scope' = ShowNextTip(scope, setting, local)
    /\ Handled("showNextTip", << >>)
    /\ UNCHANGED <<inflight, notFrontVars>>

\* the place of the action on display among the suggested actions, 0 for none
TipPosition(sc) ==
    IF \E i \in 1..Len(sc.suggestedActions) : sc.suggestedActions[i] = sc.tip
    THEN CHOOSE i \in 1..Len(sc.suggestedActions) : sc.suggestedActions[i] = sc.tip
    ELSE 0

\* the action on display is the last of the suggested actions, or none of them
UsedLast(sc) == TipPosition(sc) \in {0, Len(sc.suggestedActions)}

\* setSuggestedActionStateWithPreload for the action on display: the request
\* is sent and its promise is pending; the request is kept with whether the
\* action was the last suggested one when it was used
SetSuggestedActionStateWithPreload ==
    /\ Idle
    /\ scope.screen = "tip"
    /\ Len(inflight.states) < MaxStateRequests
    /\ scope' = [scope EXCEPT !.lastActionUsed = TRUE]
    /\ inflight' = [inflight EXCEPT !.states =
                       Append(@, [last |-> UsedLast(scope)])]
    /\ Handled("setSuggestedActionStateWithPreload", << >>)
    /\ UNCHANGED notFrontVars

\* if (!(_.size($scope.suggestedActions) > $scope.idx + 1))
Exhausted(sc) == ~(Len(sc.suggestedActions) > sc.idx + 1)

\* the callback of User.actionState in setSuggestedActionStateWithPreload: the
\* i-th pending request is answered with n actions in progress
ActionStateAnswered(i, n) ==
    LET sc == [scope EXCEPT !.inProgress = n, !.numberOfCurrentActions = Num(n)]
    IN  /\ i \in 1..Len(inflight.states)
        /\ Exhausted(sc) => inflight.queries < MaxQueries
        /\ scope' = IF Exhausted(sc) THEN LoadSuggested(sc) ELSE sc
        /\ inflight' = [inflight EXCEPT !.states = RemoveAt(@, i),
                                        !.queries = IF Exhausted(sc) THEN @ + 1 ELSE @]
        /\ Handled("User.actionState.then", << >>)
        /\ UNCHANGED notFrontVars

\* the callback of Actions.query in loadSuggestedActions
SuggestedAnswered(data) ==
    /\ inflight.queries > 0
    /\ scope' = [scope EXCEPT !.suggestedActions = data]
    /\ inflight' = [inflight EXCEPT !.queries = @ - 1]
    /\ Handled("Actions.query.then", << >>)
    /\ UNCHANGED notFrontVars

\* the local lists of $scope.currentUser.actions, and the ones rehearseActions
\* reads in the order it reads them
RehearseTypes == <<"done", "declined", "na">>
LocalIds == 1..MaxLocal

\* _.toArray($scope.currentUser.actions[type]): the actions of one list
ToArray(user, type) == InIdOrder({a \in LocalIds : user.type[a] = type})

\* _.size($scope.currentUser.actions[type])
Size(user, type) == Cardinality({a \in LocalIds : user.type[a] = type})

\* if ($scope.currentUser.profile.toRehearse[type]) actions = actions.concat(...)
RECURSIVE ConcatRehearse(_, _)
ConcatRehearse(user, k) ==
    IF k = 0 THEN << >>
    ELSE ConcatRehearse(user, k - 1)
         \o (IF user.toRehearse[RehearseTypes[k]] THEN ToArray(user, RehearseTypes[k])
             ELSE << >>)

\* $filter('orderBy')(actions, 'latestDate'): ascending, equal dates keep their order
RECURSIVE OrderByLatestDate(_, _)
OrderByLatestDate(user, list) ==
    IF list = << >> THEN << >>
    ELSE LET i == CHOOSE i \in 1..Len(list) : \A j \in 1..Len(list) :
                     \/ user.latestDate[list[j]] > user.latestDate[list[i]]
                     \/ user.latestDate[list[j]] = user.latestDate[list[i]] /\ i <= j
         IN  <<list[i]>> \o OrderByLatestDate(user, RemoveAt(list, i))

\* the actions rehearseActions puts into the suggestion list: the slice to
\* preferredNumberOfActions is assigned to another name (actios) and lost
Rehearsable(user) == OrderByLatestDate(user, ConcatRehearse(user, Len(RehearseTypes)))

\* rehearseActions, called from a view
Rehearse ==
    /\ Idle
    /\ scope' = RehearseActions(scope, Rehearsable(currentUser))
    /\ Handled("rehearseActions", << >>)
    /\ UNCHANGED <<inflight, notFrontVars>>

\* the comments the backend answers a load with: n comments of the action
CommentsData(actionId, n) == [i \in 1..n |-> [actionId |-> actionId, nr |-> i]]

\* loadCommentsByActionId: the request is sent and its promise is pending
LoadCommentsByActionId(actionId) ==
    /\ Len(loads) < MaxLoads
    /\ loads' = Append(loads, [actionId |-> actionId, pc |-> "pending", n |-> 0])
    /\ Handled("loadCommentsByActionId", [actionId |-> actionId])
    /\ UNCHANGED <<comments, moreComments, notPageVars>>

\* data.length > $scope.nrToLoad
MoreThanLoad(n) == n > nrToLoad

\* data.length >= $scope.nrToLoad
FullLoad(n) == n >= nrToLoad

\* the callback of Actions.getComments in loadCommentsByActionId: the i-th
\* load is answered with n comments
CommentsAnswered(i, n) ==
    /\ i \in 1..Len(loads)
    /\ loads[i].pc = "pending"
    /\ comments' = comments \o CommentsData(loads[i].actionId, n)
    /\ moreComments' = [moreComments EXCEPT ![loads[i].actionId] =
                           IF FullLoad(n) THEN "true" ELSE "false"]
    /\ loads' = [loads EXCEPT ![i].pc = "done", ![i].n = n]
    /\ Handled("Actions.getComments.then", [actionId |-> loads[i].actionId, n |-> n])
    /\ UNCHANGED notPageVars

\* hasMoreComments(actionId)
HasMoreComments(actionId) ==
    IF moreComments[actionId] = "undefined" THEN TRUE
    ELSE moreComments[actionId] = "true"

\* the lists a view shows with a bound on their items
ShowTypes == {"inProgress", "pending", "done"}

\* showMore(type)
ShowMore(type) ==
    LET more == maxNumberShow[type] + sNr
    IN  /\ maxNumberShow' = [maxNumberShow EXCEPT ![type] =
                                IF more > Size(currentUser, type)
                                THEN Size(currentUser, type) ELSE more]
        /\ Handled("showMore", [type |-> type])
        /\ UNCHANGED <<currentUser, scope, notListVars>>

\* showLess(type)
ShowLess(type) ==
    LET less == maxNumberShow[type] - sNr
    IN  /\ maxNumberShow' = [maxNumberShow EXCEPT ![type] =
                                IF less < sNr THEN sNr ELSE less]
        /\ Handled("showLess", [type |-> type])
        /\ UNCHANGED <<currentUser, scope, notListVars>>

(***************************************************************************)
(* The seed script.  A collection is a function from _id to the stored     *)
(* document or NoDoc; a document has the value of its key (a user's email, *)
(* an action's name) and its authorId.                                     *)
(***************************************************************************)
DefaultEmail == 1               \* defaults.user.email
NoId == 0                       \* the _id read off no document

\* defaults.user
DefaultUser == [key |-> DefaultEmail, authorId |-> NoUser]

\* the names of data.actions: the last action has the name of the first
DataNames == [i \in 1..MaxSeeded |-> IF i = MaxSeeded THEN 1 ELSE i]

\* action.authorId = defaultUserId
DataAction(i, defaultUserId) == [key |-> DataNames[i], authorId |-> defaultUserId]

\* the documents of a collection with a key value
WithKey(coll, key) == {i \in DOMAIN coll : coll[i] # NoDoc /\ coll[i].key = key}

\* the lowest of a set of ids
Lowest(ids) == CHOOSE i \in ids : \A j \in ids : i <= j

\* createIfNotExist(model, key, doc, cb): the arguments of cb and the
\* collection afterwards; failure says whether findOne or create fails
createIfNotExist(coll, doc, failure) ==
    LET hits == WithKey(coll, doc.key)
        new == Lowest({i \in DOMAIN coll : coll[i] = NoDoc})
    IN  IF failure = "findOne" THEN [err |-> "findOne failed", id |-> NoId, coll |-> coll]
        ELSE IF hits # {} THEN [err |-> Null, id |-> Lowest(hits), coll |-> coll]
        ELSE IF failure = "create" THEN [err |-> "create failed", id |-> NoId, coll |-> coll]
        ELSE [err |-> Null, id |-> new, coll |-> [coll EXCEPT ![new] = doc]]

IdleSeed == [pc |-> "idle", defaultUserId |-> NoId, k |-> 0, err |-> Null,
             exit |-> "none", runs |-> 0]

\* db.once('open'): a run of the script starts once the last one is over
SeedOpen ==
    /\ seed.pc \in {"idle", "exited"}
    /\ seed.runs < MaxRuns
    /\ seed' = [IdleSeed EXCEPT !.pc = "user", !.runs = seed.runs + 1]
    /\ UNCHANGED <<actions, userDocs, notSeedVars>>

\* what becomes of the process when a callback throws: the exception ends it
\* with a status of the runtime, or the driver swallows it and the process
\* stays
Uncaught == {"1", "8", "none"}

\* the first function of the series and its callback, which reads result._id
\* before it passes err on
SeedUser(failure, uncaught) ==
    LET out == createIfNotExist(userDocs, DefaultUser, failure)
    IN  /\ seed.pc = "user"
        /\ userDocs' = out.coll
        /\ seed' = IF out.err # Null
                    THEN [seed EXCEPT !.pc = IF uncaught = "none" THEN "stuck" ELSE "exited",
                                      !.err = out.err, !.exit = uncaught]
                    ELSE [seed EXCEPT !.pc = "actions", !.defaultUserId = out.id, !.k = 1]
        /\ UNCHANGED <<actions, notSeedVars>>

\* process.exit(err ? 1 : 0)
Exit(sd, err) == [sd EXCEPT !.pc = "exited", !.err = err,
                            !.exit = IF err # Null THEN "1" ELSE "0"]

\* one step of async.eachSeries over data.actions, and the callback of the
\* series after the last action or an error
SeedAction(failure) ==
    LET out == createIfNotExist(actions, DataAction(seed.k, seed.defaultUserId), failure)
    IN  /\ seed.pc = "actions"
        /\ actions' = out.coll
        /\ seed' = IF out.err # Null THEN Exit(seed, out.err)
                    ELSE IF seed.k = MaxSeeded THEN Exit(seed, Null)
                    ELSE [seed EXCEPT !.k = @ + 1]
        /\ UNCHANGED <<userDocs, notSeedVars>>

(***************************************************************************)
(* Calls of the models' rate that overlap: the callback of findOne sets    *)
(* ratings[user._id] on the document it was given, and save writes the     *)
(* ratings of that document.                                               *)
(***************************************************************************)
Slots == 1..MaxCalls

IdleCall == [pc |-> "idle", op |-> "none", user |-> NoUser, id |-> 0,
             ratings |-> << >>, err |-> Null]

\* the error exports.rate (ActionComment) calls back with before it saves
ACRateError(a, c, user, rating) ==
    IF user = NoUser THEN "Missing/invalid user"
    ELSE IF ~IsNumber(rating) THEN "Missing/invalid rating"
    ELSE IF ~(ACFound(c) /\ aComments[c].actionId = a) THEN "Action comment not found"
    ELSE IF ACRatingInvalid(rating) THEN "invalid rating! should be 0 or 1"
    ELSE Null

\* exports.rate (ActionComment) up to the call of save
ACRateFind(s, a, c, user, rating) ==
    LET err == ACRateError(a, c, user, rating)
    IN  /\ calls[s].pc = "idle"
        /\ calls' = [calls EXCEPT ![s] =
                        [pc |-> IF err = Null THEN "save" ELSE "done",
                         op |-> "ActionComment.rate", user |-> user, id |-> c,
                         ratings |-> IF err = Null
                                     THEN MapSet(aComments[c].ratings, user, ACRateEntry(rating))
                                     ELSE << >>,
                         err |-> err]]
        /\ UNCHANGED <<aComments, actions, notCallVars>>

\* the error exports.rate (Action) calls back with before it saves
ARateError(a, u, rating, effort) ==
    IF u \in {NoUser, Unnamed} THEN "Missing/invalid user"
    ELSE IF ~AFound(a) THEN "Action not found"
    ELSE ARateCheck(RIndex(actions[a].ratings, u) # 0, rating, effort)

\* exports.rate (Action) up to the call of save
ARateFind(s, a, u, rating, effort) ==
    LET err == ARateError(a, u, rating, effort)
        rs == actions[a].ratings
        old == IF RIndex(rs, u) # 0 THEN rs[RIndex(rs, u)]
               ELSE [uid |-> u, rating |-> Undef, effort |-> Undef]
    IN  /\ calls[s].pc = "idle"
        /\ calls' = [calls EXCEPT ![s] =
                        [pc |-> IF err = Null THEN "save" ELSE "done",
                         op |-> "Action.rate", user |-> u, id |-> a,
                         ratings |-> IF err = Null
                                     THEN RSet(rs, u, ARateEntry(u, rating, effort, old))
                                     ELSE << >>,
                         err |-> err]]
        /\ UNCHANGED <<aComments, actions, notCallVars>>

\* markModified('ratings') and save, and its callback: the ratings of the
\* document in memory replace the stored ones
RateSave(s) ==
    LET call == calls[s]
    IN  /\ call.pc = "save"
        /\ IF call.op = "ActionComment.rate"
           THEN /\ aComments' = [aComments EXCEPT ![call.id].ratings = call.ratings]
                /\ UNCHANGED actions
           ELSE /\ actions' = [actions EXCEPT ![call.id].ratings = call.ratings]
                /\ UNCHANGED aComments
        /\ calls' = [calls EXCEPT ![s].pc = "done"]
        /\ UNCHANGED notCallVars

(***************************************************************************)
(* Specifications                                                          *)
(***************************************************************************)
InitRet == ret = Ret("none", NoUser, Null, Undef)

InitComments ==
    /\ aComments = [c \in CommentIds |-> NoDoc]
    /\ acNext = 1

InitActions ==
    /\ actions = [a \in ActionIds |-> ActionDoc(a)]

InitUsers == userDocs = [u \in Raters |-> UserDoc(u, "English", EmptyBuckets)]

InitCoops ==
    /\ coops = [c \in CoopIds |-> NoDoc]
    /\ coopNext = 1
    /\ subNext = 1

InitRoutes ==
    /\ reqs = [r \in Reqs |-> IdleReq]
    /\ communities = [c \in CommunityIds |-> NoDoc]
    /\ commNext = 1
    /\ achievement = [u \in Users |-> 0]
    /\ cComments = [c \in CCommentIds |-> NoDoc]
    /\ ccNext = 1

\* the controller has run and its first Actions.query is pending
\* a user without local actions and with no list to rehearse; sNr items shown
NoLocalUser ==
    [type |-> [a \in {} |-> "none"], latestDate |-> [a \in {} |-> 0],
     toRehearse |-> [t \in {"done", "declined", "na"} |-> FALSE]]

\* $scope.comments = []; $scope.moreComments = {}
InitPages ==
    /\ comments = << >>
    /\ moreComments = [a \in QueryActionIds |-> "undefined"]
    /\ loads = << >>

InitSeeds == seed = IdleSeed

InitCalls == calls = [s \in Slots |-> IdleCall]

InitLists ==
    /\ InitPages
    /\ InitSeeds
    /\ InitCalls
    /\ currentUser = NoLocalUser
    /\ maxNumberShow = [t \in ShowTypes |-> sNr]

InitFront ==
    /\ scope = StartScope(0)
    /\ inflight = [queries |-> 1, states |-> << >>]
    /\ InitLists

InitAll ==
    InitRet /\ InitComments /\ InitActions /\ InitUsers /\ InitCoops /\ InitRoutes /\ InitFront

CommentRatingInputs == {Undef, Num(0), Num(1), Num(2)}
\* a comment is created without ratings, or with a map holding one entry of value 2
CreateRatingsInputs == {Undef, [u \in {2} |-> [value |-> Num(2)]]}
\* every rating by every user on the first stored comment; one call each with
\* a missing user, under another action, and on a missing comment
RatedCommentIds == {1}
ACRateInputs ==
    (CommentActionIds \X RatedCommentIds \X Users \X CommentRatingInputs)
    \cup (CommentActionIds \X RatedCommentIds \X {NoUser} \X {Undef, Num(1)})
    \cup ((QueryActionIds \ CommentActionIds) \X RatedCommentIds \X Users \X {Num(1)})
    \cup (CommentActionIds \X {MissingCommentId} \X Users \X {Num(1)})
Limits == {0, 1}
Skips == {0}

NextComments ==
    \/ focus = "comments" /\ \E u \in Users, a \in CommentActionIds,
                                rs \in CreateRatingsInputs : ACCreate(u, a, rs)
    \/ focus = "comments" /\ \E u \in Users, c \in CommentIds \cup {MissingCommentId} :
          ACSetHasPicture(u, c, TRUE)
    \/ focus = "comments" /\ \E a \in QueryActionIds, l \in Limits, s \in Skips,
                                u \in Users \cup {NoUser} : ACGet(a, l, s, u)
    \/ focus = "comments" /\ \E u \in Users, l \in Limits, s \in Skips : ACGetByUser(u, l, s)
    \/ focus = "comments" /\ \E a \in QueryActionIds, c \in CommentIds \cup {MissingCommentId} :
          ACDelete(a, c)
    \/ focus = "comments" /\ \E in \in ACRateInputs : ACRate(in[1], in[2], in[3], in[4])

ActionRatingInputs == {Undef, Num(0), Num(1), Num(2)}
ActionEffortInputs == {Undef, Num(0), Half(2), Str(7)}
\* every rating and effort by every user on every stored action; one call each
\* by a missing or unnamed user, and on a missing action
ARateInputs ==
    (ActionIds \X Users \X ActionRatingInputs \X ActionEffortInputs)
    \cup (ActionIds \X {NoUser, Unnamed} \X {Num(1)} \X {Half(2)})
    \cup ({MissingActionId} \X Users \X {Num(1)} \X {Half(2)})

NextActions ==
    \/ focus = "actions" /\ \E in \in ARateInputs : ARate(in[1], in[2], in[3], in[4])
    \/ focus = "actions" /\ \E a \in ActionIds \cup {MissingActionId}, u \in Users : AGet(a, u)
    \/ focus = "actions" /\ \E l \in Limits, s \in Skips, inc \in BOOLEAN,
                               u \in Users \cup {NoUser} : AAll(l, s, inc, u)

CoopInputs == {1, 2}

NextCoops ==
    \/ focus = "cooperatives" /\ \E x \in CoopInputs : CoopCreate(x)
    \/ focus = "cooperatives" /\ \E id \in CoopIds \cup {MissingCoopId} : CoopGet(id)
    \/ focus = "cooperatives" /\ \E id \in CoopIds \cup {MissingCoopId}, x \in CoopInputs :
          CoopUpdate(id, x)
    \/ focus = "cooperatives" /\ \E id \in CoopIds \cup {MissingCoopId}, x \in CoopInputs :
          CoopAddAction(id, x)
    \/ focus = "cooperatives" /\ \E id \in CoopIds \cup {MissingCoopId},
                                    sub \in SubIds \cup {MissingSubId}, x \in CoopInputs :
          CoopUpdateAction(id, sub, x)
    \/ focus = "cooperatives" /\ \E id \in CoopIds \cup {MissingCoopId},
                                    sub \in SubIds \cup {MissingSubId} :
          CoopDeleteAction(id, sub)

\* The ActionComment, Action and Cooperative collections.  No operation of one
\* reads or writes another, so a run exercises one of them.
Foci == {"comments", "actions", "cooperatives"}

Init == focus \in Foci /\ InitAll

Next == NextComments \/ NextActions \/ NextCoops

Spec == Init /\ [][Next]_vars

\* One action rated by NumRaters users and read back.
EffortInputs == {Num(1), Num(5)}

InitEffort == focus = "effort" /\ InitAll

NextEffort ==
    \/ \E u \in Raters, e \in EffortInputs : ARate(1, u, Num(1), e)
    \/ AGet(1, 1)
    \/ AAll(0, 0, FALSE, 1)

SpecEffort == InitEffort /\ [][NextEffort]_vars

\* Suggestions for user 1 over NumActions stored actions.
BucketsOf(f) == [b \in Buckets |-> {a \in DOMAIN f : f[a] = b}]

\* no action, one action in one bucket, or an action in every bucket
BucketChoices ==
    {BucketsOf(f) : f \in UNION {[S -> Buckets] :
                                   S \in {T \in SUBSET SuggestIds : Cardinality(T) <= 1}}}
    \cup {[done |-> {1}, declined |-> {2}, na |-> {3}, pending |-> {4}, inProgress |-> {5}]}

InitSuggest ==
    /\ focus = "suggested"
    /\ InitRet /\ InitComments /\ InitCoops /\ InitRoutes /\ InitFront
    /\ actions = [a \in SuggestIds |-> ActionDoc(a)]
    /\ \E l \in Languages, bs \in BucketChoices :
          userDocs = [u \in Raters |-> UserDoc(u, IF u = 1 THEN l ELSE "English",
                                               IF u = 1 THEN bs ELSE EmptyBuckets)]

\* one call per drawn user and collection
NextSuggest == ret.op = "none" /\ AGetSuggested(1)

SpecSuggest == InitSuggest /\ [][NextSuggest]_vars

\* the path parameter of a comment route is a community or is malformed
CommentPathIds == CommunityIds \cup {BadId}

\* the user of the requests of a run
JoinUser == CHOOSE u \in Users : \A v \in Users : u <= v
RouteUsers == {JoinUser}

\* The community router, one request at a time.
Sequential == CHOOSE r \in Reqs : \A q \in Reqs : r <= q

NextRoutes ==
    \/ \E u \in RouteUsers, id \in CommentPathIds, b \in CommunityIds \cup {MissingCommunityId} :
          PostComment(Sequential, u, id, b)
    \/ \E u \in RouteUsers, id \in CommentPathIds : GetComments(Sequential, u, id, Undef, Undef)
    \/ \E u \in RouteUsers, id \in CommentPathIds, c \in CCommentIds \cup {MissingCCommentId} :
          DeleteComment(Sequential, u, id, c)
    \/ \E u \in RouteUsers : PostCommunity(Sequential, u)
    \/ \E u \in RouteUsers, seg \in PathIds \cup {ListSegment} : GetSegment(Sequential, u, seg)
    \/ \E u \in RouteUsers, id \in PathIds : GetTop(Sequential, u, id)
    \/ \E u \in RouteUsers, id \in PathIds : PutRate(Sequential, u, id)
    \/ \E u \in RouteUsers, id \in PathIds : DeleteCommunity(Sequential, u, id)
    \/ \E u \in RouteUsers, id \in PathIds : PostPicture(Sequential, u, id)
    \/ \E u \in RouteUsers, id \in PathIds : PutJoin(Sequential, u, id)
    \/ JoinAddMember(Sequential)
    \/ \E failed \in BOOLEAN : JoinCommunities(Sequential, failed)
    \/ JoinAchievement(Sequential)

InitRouter == focus = "router" /\ InitAll

SpecRoutes == InitRouter /\ [][NextRoutes]_vars

\* Requests of one user, handled at once, over stored communities; a run has
\* MaxRequests of them.  The user has joined no community yet, or had joined
\* MaxCommunities communities that are gone.

InitJoin ==
    /\ focus = "join"
    /\ InitRet /\ InitComments /\ InitActions /\ InitUsers /\ InitCoops /\ InitFront
    /\ reqs = [r \in Reqs |-> IdleReq]
    /\ communities = [c \in CommunityIds |-> [members |-> {}]]
    /\ commNext = MaxCommunities + 1
    /\ \E joined \in {0, MaxCommunities} : achievement = [u \in Users |-> joined]
    /\ cComments = [c \in CCommentIds |-> NoDoc]
    /\ ccNext = 1

NextJoin ==
    \/ \E r \in Reqs, id \in PathIds : reqs[r].pc = "idle" /\ PutJoin(r, JoinUser, id)
    \/ \E r \in Reqs : JoinAddMember(r)
    \/ \E r \in Reqs, failed \in BOOLEAN : JoinCommunities(r, failed)
    \/ \E r \in Reqs : JoinAchievement(r)
    \/ \E r \in Reqs, id \in CommunityIds :
          reqs[r].pc = "idle" /\ DeleteCommunity(r, JoinUser, id)

SpecJoin == InitJoin /\ [][NextJoin]_vars

\* The comment routes over a thread of up to MaxThread comments.
ThreadIds == 1..MaxThread

\* a thread of community comments that starts empty, or a stored thread of
\* MaxThread action comments
ThreadFoci == {"thread", "actionThread"}

StoredAComment(u, a, c) ==
    [actionId |-> a, userId |-> u, hasPicture |-> FALSE, ratings |-> EmptyMap, date |-> c]

InitThread ==
    /\ focus \in ThreadFoci
    /\ InitRet /\ InitActions /\ InitUsers /\ InitCoops /\ InitFront
    /\ IF focus = "thread" THEN InitComments
       ELSE /\ \E parent \in [ThreadIds -> QueryActionIds] :
                  aComments = [c \in ThreadIds |-> StoredAComment(JoinUser, parent[c], c)]
            /\ acNext = MaxThread + 1
    /\ reqs = [r \in Reqs |-> IdleReq]
    /\ communities = [c \in CommunityIds |-> NoDoc]
    /\ commNext = 1
    /\ achievement = [u \in Users |-> 0]
    /\ cComments = [c \in ThreadIds |-> NoDoc]
    /\ ccNext = 1

\* req.body.limit and req.body.skip: not supplied, or a number
ThreadLimits == {Undef, Num(0), Num(1)}
ThreadSkips == {Undef, Num(1)}

NextThread ==
    \/ focus = "thread" /\ \E id \in CommentPathIds, b \in CommunityIds \cup {MissingCommunityId} :
          PostComment(Sequential, JoinUser, id, b)
    \/ focus = "thread" /\ \E id \in CommentPathIds, l \in ThreadLimits, k \in ThreadSkips :
          GetComments(Sequential, JoinUser, id, l, k)
    \/ focus = "thread" /\ \E id \in CommentPathIds, c \in ThreadIds \cup {MissingCCommentId} :
          DeleteComment(Sequential, JoinUser, id, c)
    \/ focus = "actionThread" /\ \E a \in QueryActionIds,
                                      c \in ThreadIds \cup {MissingCommentId} :
          ACDelete(a, c)

SpecThread == InitThread /\ [][NextThread]_vars

\* ActionsCtrl with its requests in flight.
InProgressSizes ==
    {preferredNumberOfActions - 1, preferredNumberOfActions,
     maxNumberOfActions - 1, maxNumberOfActions}
RehearseSettings == {"toRehearse", "notToRehearse", "unset"}

\* the answers of the backend to Actions.query: the first actions, in order
SuggestedPrefix(k) == [i \in 1..k |-> i]
SuggestedAnswers == {SuggestedPrefix(k) : k \in 0..MaxSuggested}

\* the local actions rehearseActions collects: none, or one that is no suggestion
RehearseAnswers == {<< >>, <<MaxSuggested + 1>>}

InitTips ==
    /\ focus = "tips"
    /\ InitRet /\ InitComments /\ InitActions /\ InitUsers /\ InitCoops /\ InitRoutes
    /\ \E n \in InProgressSizes : scope = StartScope(n)
    /\ inflight = [queries |-> 1, states |-> << >>]
    /\ InitLists

NextTips ==
    \/ \E setting \in RehearseSettings, local \in RehearseAnswers : AddActions(setting, local)
    \/ \E res \in BOOLEAN, setting \in RehearseSettings, local \in RehearseAnswers :
          ConfirmationAnswered(res, setting, local)
    \/ AlertClosed
    \/ \E res \in BOOLEAN : ChangeSettingAnswered(res)
    \/ \E res \in BOOLEAN, local \in RehearseAnswers : RehearseAnswered(res, local)
    \/ \E setting \in RehearseSettings, local \in RehearseAnswers : NextTip(setting, local)
    \/ SetSuggestedActionStateWithPreload
    \/ \E i \in 1..MaxStateRequests, n \in InProgressSizes : ActionStateAnswered(i, n)
    \/ \E data \in SuggestedAnswers : SuggestedAnswered(data)

SpecTips == InitTips /\ [][NextTips]_vars

\* rehearseActions over every assignment of the local actions to the lists it
\* reads, every pair of dates and every rehearsal setting of the profile.
LatestDates == {1, 2}
LocalUsers ==
    [type : [LocalIds -> {RehearseTypes[k] : k \in 1..Len(RehearseTypes)}],
     latestDate : [LocalIds -> LatestDates],
     toRehearse : [{"done", "declined", "na"} -> BOOLEAN]]

InitRehearse ==
    /\ focus = "rehearse"
    /\ InitRet /\ InitComments /\ InitActions /\ InitUsers /\ InitCoops /\ InitRoutes
    /\ \E data \in SuggestedAnswers :
          scope = [StartScope(0) EXCEPT !.suggestedActions = data]
    /\ inflight = [queries |-> 0, states |-> << >>]
    /\ currentUser \in LocalUsers
    /\ InitPages
    /\ InitSeeds
    /\ InitCalls
    /\ maxNumberShow = [t \in ShowTypes |-> sNr]

NextRehearse ==
    \/ Rehearse
    \/ AlertClosed

SpecRehearse == InitRehearse /\ [][NextRehearse]_vars

\* showMore and showLess over every assignment of the local actions to the
\* lists that are shown.
ShownUsers ==
    {[NoLocalUser EXCEPT !.type = type, !.latestDate = [a \in LocalIds |-> 1]] :
        type \in [LocalIds -> ShowTypes]}

InitShow ==
    /\ focus = "show"
    /\ InitRet /\ InitComments /\ InitActions /\ InitUsers /\ InitCoops /\ InitRoutes
    /\ scope = StartScope(0)
    /\ inflight = [queries |-> 1, states |-> << >>]
    /\ currentUser \in ShownUsers
    /\ InitPages
    /\ InitSeeds
    /\ InitCalls
    /\ maxNumberShow = [t \in ShowTypes |-> sNr]

NextShow ==
    \/ \E type \in ShowTypes : ShowMore(type)
    \/ \E type \in ShowTypes : ShowLess(type)

SpecShow == InitShow /\ [][NextShow]_vars

\* Loads of the comments of two actions, answered in any order with no
\* comment, one, one less than a full load, or a full load.
LoadSizes == {0, 1, nrToLoad - 1, nrToLoad}

InitPaging == focus = "paging" /\ InitAll

NextPaging ==
    \/ \E a \in QueryActionIds : LoadCommentsByActionId(a)
    \/ \E i \in 1..MaxLoads, n \in LoadSizes : CommentsAnswered(i, n)

SpecPaging == InitPaging /\ [][NextPaging]_vars

\* Runs of the seed script, one after the other, over a database that is
\* empty or has the default user and the first actions of the data already,
\* as an earlier run that failed leaves it; any findOne or create may fail.
SeedUserIds == 1..2
SeedActionIds == 1..MaxSeeded
Failures == {"none", "findOne", "create"}

InitSeed ==
    /\ focus = "seed"
    /\ InitRet /\ InitComments /\ InitCoops /\ InitRoutes /\ InitFront
    /\ \E stored \in {NoDoc, DefaultUser}, n \in 0..(MaxSeeded - 1) :
          /\ stored = NoDoc => n = 0
          /\ userDocs = [u \in SeedUserIds |-> IF u = 1 THEN stored ELSE NoDoc]
          /\ actions = [a \in SeedActionIds |-> IF a <= n THEN DataAction(a, 1) ELSE NoDoc]

NextSeed ==
    \/ SeedOpen
    \/ \E failure \in Failures, uncaught \in Uncaught : SeedUser(failure, uncaught)
    \/ \E failure \in Failures : SeedAction(failure)

SpecSeed == InitSeed /\ [][NextSeed]_vars

\* Calls of rate by the users on one stored comment and one stored action,
\* one call per slot, their steps in any order.
OverlapRatings == {Num(0), Num(1)}

InitOverlap ==
    /\ focus = "overlap"
    /\ InitRet /\ InitActions /\ InitUsers /\ InitCoops /\ InitRoutes /\ InitFront
    /\ aComments = [c \in CommentIds |-> StoredAComment(1, 1, c)]
    /\ acNext = MaxComments + 1

NextOverlap ==
    \/ \E s \in Slots, u \in Users, rating \in OverlapRatings : ACRateFind(s, 1, 1, u, rating)
    \/ \E s \in Slots, u \in Users, rating \in OverlapRatings :
          ARateFind(s, 1, u, rating, Num(3))
    \/ \E s \in Slots : RateSave(s)

SpecOverlap == InitOverlap /\ [][NextOverlap]_vars

(***************************************************************************)
(* Rating maps                                                             *)
(***************************************************************************)
ACRateOk == ret'.op = "ActionComment.rate" /\ ret'.err = Null
ARateOk == ret'.op = "Action.rate" /\ ret'.err = Null

\* a step that rewrites one user's entry of a comment's ratings and nothing else
ACRateFrame ==
    LET c == ret'.args.commentId
        u == ret'.user
        old == aComments[c].ratings
        new == aComments'[c].ratings
    IN  /\ DOMAIN new = DOMAIN old \cup {u}
        /\ new[u].value = ret'.args.rating
        /\ \A v \in DOMAIN old \ {u} : new[v] = old[v]
        /\ \A d \in CommentIds \ {c} : aComments'[d] = aComments[d]

\* a step of another kind leaves the ratings of every stored comment as they were
ACOtherFrame ==
    \A c \in CommentIds :
        (aComments[c] # NoDoc /\ aComments'[c] # NoDoc) =>
            aComments'[c].ratings = aComments[c].ratings

\* one user's entry of an action's ratings is rewritten, with the given rating and effort
ARateFrame(rating, effort) ==
    LET a == ret'.args.id
        u == ret'.user
        old == actions[a].ratings
        new == actions'[a].ratings
    IN  /\ {new[i].uid : i \in 1..Len(new)} = {old[i].uid : i \in 1..Len(old)} \cup {u}
        /\ \A i, j \in 1..Len(new) : new[i].uid = new[j].uid => i = j
        /\ new[RIndex(new, u)].rating = rating
        /\ new[RIndex(new, u)].effort = effort
        /\ \A i \in 1..Len(old) : old[i].uid # u => new[RIndex(new, old[i].uid)] = old[i]
        /\ \A b \in DOMAIN actions \ {a} : actions'[b] = actions[b]

\* what the user had stored before the step; undefined fields when nothing
AStoredBefore ==
    LET rs == actions[ret'.args.id].ratings
        i == RIndex(rs, ret'.user)
    IN  IF i = 0 THEN [rating |-> Undef, effort |-> Undef] ELSE rs[i]

\* C1 as stated: after a successful rate call the ratings map holds one entry
\* per user who has rated, the caller's entry carries the rating (and effort)
\* of that call, and nothing else changes.
C1_AsStated ==
    [][/\ ACRateOk => ACRateFrame
       /\ ~ACRateOk => ACOtherFrame
       /\ ARateOk => ARateFrame(ret'.args.rating, ret'.args.effort)
       /\ ~ARateOk => actions' = actions]_vars

\* C1 amended: as C1, except that Action.rate stores a supplied number
\* truncated to an integer and keeps the user's previously stored rating or
\* effort (none on a first call) where the call supplies no number.
C1_RatingOverwritten ==
    [][/\ ACRateOk => ACRateFrame
       /\ ~ACRateOk => ACOtherFrame
       /\ ARateOk =>
            ARateFrame(IF IsNumber(ret'.args.rating) THEN ret'.args.rating
                       ELSE AStoredBefore.rating,
                       IF IsNumber(ret'.args.effort)
                       THEN [k |-> "num", n |-> ret'.args.effort.n, f |-> 0]
                       ELSE AStoredBefore.effort)
       /\ ~ARateOk => actions' = actions]_vars

\* a user has re-rated an action without a rating while another user's entry is stored
C1_Witness ==
    /\ ret.op = "Action.rate" /\ ret.err = Null /\ ret.args.rating = Undef
    /\ Len(actions[1].ratings) = 2
    /\ actions[1].ratings[RIndex(actions[1].ratings, ret.user)].rating = Num(1)

(***************************************************************************)
(* Rating reduction of action comments                                     *)
(***************************************************************************)
CommentOps == {"ActionComment.create", "ActionComment.rate", "ActionComment.setHasPicture"}
CommentListOps == {"ActionComment.get", "ActionComment.getByUser"}

\* the comments the last callback returned
ReturnedComments ==
    IF ret.err # Null THEN {}
    ELSE IF ret.op \in CommentOps THEN {ret.res}
    ELSE IF ret.op \in CommentListOps THEN {ret.res[i] : i \in 1..Len(ret.res)}
    ELSE {}

NumLikesOk(o) ==
    LET m == aComments[o._id].ratings
    IN  o.numLikes = Cardinality({u \in DOMAIN m : m[u].value = Num(1)})

UserRatingOk(o, user) ==
    LET m == aComments[o._id].ratings
    IN  IF user \in DOMAIN m
        THEN o.userRating.has /\ o.userRating.value = m[user].value
        ELSE ~o.userRating.has

\* C3 as stated: every returned comment has numLikes = number of ratings of
\* value 1, the requesting user's own rating when there is one, and no ratings map.
C3_AsStated ==
    \A o \in ReturnedComments :
        NumLikesOk(o) /\ UserRatingOk(o, ret.user) /\ ~o.hasRatings

\* numLikes counts the entries whose value is truthy
NumLikesTruthy(o) ==
    LET m == aComments[o._id].ratings
    IN  o.numLikes = Cardinality({u \in DOMAIN m : m[u].value \notin {Undef, Num(0)}})

\* every value of the comment's ratings map is 0 or 1
ZeroOrOne(c) ==
    \A u \in DOMAIN aComments[c].ratings : aComments[c].ratings[u].value \in {Num(0), Num(1)}

\* C3 amended: every returned comment has numLikes = number of ratings whose
\* value is truthy (the ratings of value 1 when only rate wrote the map) and no
\* ratings map; one returned by create, get, getByUser or rate has the
\* requesting user's own rating when there is one; one returned by
\* setHasPicture never has a userRating.
C3_RatingReduced ==
    \A o \in ReturnedComments :
        /\ NumLikesTruthy(o) /\ ~o.hasRatings
        /\ ZeroOrOne(o._id) => NumLikesOk(o)
        /\ IF ret.op = "ActionComment.setHasPicture" THEN ~o.userRating.has
           ELSE UserRatingOk(o, ret.user)

\* get returns a comment liked by one user to another user who rated it 0
C3_Witness ==
    /\ ret.op = "ActionComment.get" /\ ret.err = Null /\ Len(ret.res) = 1
    /\ ret.res[1].numLikes = 1
    /\ ret.res[1].userRating = [has |-> TRUE, value |-> Num(0)]

(***************************************************************************)
(* Action responses                                                        *)
(***************************************************************************)
\* the actions the last callback of get or all returned
ReturnedActions ==
    IF ret.err # Null THEN {}
    ELSE IF ret.op = "Action.get" THEN {ret.res}
    ELSE IF ret.op = "Action.all" THEN {ret.res[i] : i \in 1..Len(ret.res)}
    ELSE {}

\* C4: an action returned by get, or by all without includeRatings, carries
\* numLikes and the requesting user's rating but not the ratings of other users.
C4_RatingsDropped ==
    \A o \in ReturnedActions :
        (ret.op = "Action.get" \/ ~ret.args.includeRatings) =>
            /\ o.numLikes = includeRatingStats(actions[o._id].ratings)
            /\ o.userRating = AUserRating(actions[o._id].ratings, ret.user)
            /\ \A i \in 1..Len(o.ratings) : o.ratings[i].uid = ret.user

\* v sorted into the ascending sequence s
RECURSIVE InsertSorted(_, _)
InsertSorted(v, s) ==
    IF s = << >> THEN <<v>>
    ELSE IF v.n <= Head(s).n THEN <<v>> \o s
    ELSE <<Head(s)>> \o InsertSorted(v, Tail(s))

RECURSIVE Sorted(_)
Sorted(s) == IF s = << >> THEN << >> ELSE InsertSorted(Head(s), Sorted(Tail(s)))

\* the median of five copies of the author's effort and every submitted effort
MedianEffort(a) ==
    LET all == Sorted(EffortEstimates(actions[a].effort, actions[a].ratings))
    IN  all[(Len(all) \div 2) + 1]

\* C5: the effort returned by get and all is the median of five copies of the
\* author's effort and every user-submitted effort.
C5_EffortIsMedian ==
    \A o \in ReturnedActions : o.effort = MedianEffort(o._id)

(***************************************************************************)
(* Suggested actions                                                       *)
(***************************************************************************)
Suggested == {ret.res[i]._id : i \in 1..Len(ret.res)}
SuggestedFor == userDocs[ret.user]

InAnyBucket(a, user) == \E b \in Buckets : a \in user.actions[b]

HasLocalName(a, language) ==
    /\ language = "Italian" => actions[a].nameIt # Undef
    /\ language = "Swedish" => actions[a].nameSe # Undef

Eligible ==
    {a \in DOMAIN actions :
        ~InAnyBucket(a, SuggestedFor) /\ HasLocalName(a, SuggestedFor.language)}

\* C6: getSuggested returns at most 5 distinct actions, none of them in a
\* bucket of the user, and all eligible actions when there are 5 or fewer.
C6_SuggestedCapped ==
    ret.op = "Action.getSuggested" =>
        /\ ret.err = Null
        /\ Len(ret.res) <= 5
        /\ Cardinality(Suggested) = Len(ret.res)
        /\ \A a \in Suggested : a \in DOMAIN actions /\ ~InAnyBucket(a, SuggestedFor)
        /\ Cardinality(Eligible) <= 5 => Suggested = Eligible

\* a user with a pending action is suggested five of the more than five others, shuffled
C6_Witness ==
    /\ ret.op = "Action.getSuggested" /\ Len(ret.res) = 5
    /\ SuggestedFor.actions["pending"] # {}
    /\ Cardinality(Eligible) > 5
    /\ ret.res[1]._id > ret.res[2]._id

\* C7: for an Italian (Swedish) user every suggested action has a nameIt
\* (nameSe) and is returned with its localized name and description; for
\* another language nothing is filtered by name and the default name and
\* description are returned.
C7_SuggestedLocalized ==
    ret.op = "Action.getSuggested" =>
        LET lang == SuggestedFor.language IN
        /\ \A i \in 1..Len(ret.res) :
              LET o == ret.res[i]
                  doc == actions[o._id]
              IN  /\ lang = "Italian" =>
                        /\ doc.nameIt # Undef
                        /\ o.name = doc.nameIt /\ o.description = doc.descriptionIt
                  /\ lang = "Swedish" =>
                        /\ doc.nameSe # Undef
                        /\ o.name = doc.nameSe /\ o.description = doc.descriptionSe
                  /\ lang \notin {"Italian", "Swedish"} =>
                        o.name = doc.name /\ o.description = doc.description
        /\ (lang \notin {"Italian", "Swedish"} /\ Len(ret.res) < 5) =>
              Suggested = {a \in DOMAIN actions : ~InAnyBucket(a, SuggestedFor)}

\* an Italian user is suggested actions under their Italian names, and not action 2
C7_Witness ==
    /\ ret.op = "Action.getSuggested" /\ SuggestedFor.language = "Italian"
    /\ Len(ret.res) >= 2 /\ 2 \notin Suggested /\ ~InAnyBucket(2, SuggestedFor)
    /\ \A i \in 1..Len(ret.res) : ret.res[i].name = actions[ret.res[i]._id].nameIt

(***************************************************************************)
(* Domain errors                                                           *)
(***************************************************************************)
Unchanged == UNCHANGED <<commentVars, actionVars, userVars, coopVars, routeVars>>

\* the callback was invoked once, with an error and no result
ErrorOnly == ret'.calls = 1 /\ ret'.err # Null /\ ret'.res = Undef

CoopNotFoundOps == {"Cooperative.get", "Cooperative.addAction",
                    "Cooperative.updateAction", "Cooperative.deleteAction"}
CoopSubOps == {"Cooperative.updateAction", "Cooperative.deleteAction"}

\* the call of this step names a document that is not stored
NotFoundCall ==
    \/ /\ ret'.op = "Action.rate"
       /\ ret'.args.id \notin DOMAIN actions
    \/ /\ ret'.op = "ActionComment.rate"
       /\ ~\E c \in CommentIds : /\ c = ret'.args.commentId /\ aComments[c] # NoDoc
                                /\ aComments[c].actionId = ret'.args.actionId
    \/ /\ ret'.op \in CoopNotFoundOps
       /\ ~\E c \in CoopIds : c = ret'.args.id /\ coops[c] # NoDoc
    \/ /\ ret'.op \in CoopSubOps
       /\ \E c \in CoopIds :
             /\ c = ret'.args.id /\ coops[c] # NoDoc
             /\ \A i \in 1..Len(coops[c].actions) : coops[c].actions[i]._id # ret'.args.sub

\* C9: a rate call on a missing action or comment, and a Cooperative get,
\* addAction, updateAction or deleteAction on a missing cooperative or
\* sub-action, invokes the callback once with an error and no result and
\* leaves every stored document unchanged.
C9_NotFoundChangesNothing ==
    [][NotFoundCall => ErrorOnly /\ Unchanged]_vars

\* deleteAction named a sub-action the stored cooperative does not hold
C9_Witness ==
    /\ ret.op = "Cooperative.deleteAction" /\ ret.err = "Cooperative action not found"
    /\ ret.args.sub = 2
    /\ coops[1] # NoDoc /\ Len(coops[1].actions) = 1 /\ coops[1].actions[1]._id = 1

\* the call of this step has no user, or a rating that is not the number 0 or 1
BadCommentRating ==
    /\ ret'.op = "ActionComment.rate"
    /\ \/ ret'.user = NoUser
       \/ ret'.args.rating \notin {Num(0), Num(1)}

\* the entries of comment c that the step wrote
Written(c) ==
    {u \in DOMAIN aComments'[c].ratings :
        u \in DOMAIN aComments[c].ratings => aComments'[c].ratings[u] # aComments[c].ratings[u]}

C8_InvalidIdRejected ==
    \A r \in Reqs :
        (reqs[r].pc # "idle" /\ ~IsMongoId(reqs[r].id)) =>
            /\ reqs[r].status = 500
            /\ reqs[r].err = ValidationErrors
            /\ reqs[r].invoked = {}

\* C2: each join request writes max(old value, number of the user's
\* communities) to 'communitiesJoined', so that over any sequence of join
\* requests the stored counter never decreases.
C2_CounterMonotonic ==
    [][\A u \in Users : achievement'[u] >= achievement[u]]_vars

(***************************************************************************)
(* First rating of an action                                               *)
(***************************************************************************)
\* the call of this step is the first rate call of its user on a stored action
FirstRating ==
    /\ ret'.op = "Action.rate"
    /\ ret'.user \notin {NoUser, Unnamed}
    /\ ret'.args.id \in DOMAIN actions
    /\ RIndex(actions[ret'.args.id].ratings, ret'.user) = 0

\* a rating of 0 or 1 and an effort of 1..5
CompleteRating(rating, effort) ==
    /\ rating \in {Num(0), Num(1)}
    /\ effort.k = "num" /\ effort.f = 0 /\ effort.n \in 1..5

\* C11: a first rate call that omits the rating or the effort, or gives a
\* rating outside {0,1} or an effort outside 1..5, returns an error and stores
\* nothing, so every stored rating entry has a rating in {0,1} and an effort
\* in 1..5.
C11_FirstRatingComplete ==
    [][/\ (FirstRating /\ ~CompleteRating(ret'.args.rating, ret'.args.effort)) =>
             ret'.err # Null /\ actions' = actions
       /\ \A a \in DOMAIN actions' : \A i \in 1..Len(actions'[a].ratings) :
             CompleteRating(actions'[a].ratings[i].rating, actions'[a].ratings[i].effort)]_vars

(***************************************************************************)
(* Route order                                                             *)
(***************************************************************************)
\* a request GET /community/list that has been answered
ListRequested(req) ==
    req.pc = "done" /\ req.route \in {"GET /:id", "GET /list"} /\ req.id = ListSegment

\* C12: an authenticated GET /community/list is handled by the list handler,
\* which asks User.getUserCommunities for the requesting user's communities, and
\* is not answered with a validation error.
C12_ListDispatched ==
    \A r \in Reqs : ListRequested(reqs[r]) =>
        /\ reqs[r].route = "GET /list"
        /\ reqs[r].invoked = {"User.getUserCommunities"}
        /\ reqs[r].err # ValidationErrors

(***************************************************************************)
(* Community comments                                                      *)
(***************************************************************************)
Answered(req, route) == req.pc = "done" /\ req.route = route

\* C13: a comment created through POST /community/:communityId/comment is
\* stored with communityId equal to the path parameter and the userId of the
\* authenticated user.
C13_StoredUnderPath ==
    \A r \in Reqs :
        (Answered(reqs[r], "POST /:communityId/comment") /\ reqs[r].err = Null) =>
            /\ CCFound(ccNext - 1)
            /\ cComments[ccNext - 1].communityId = reqs[r].id
            /\ cComments[ccNext - 1].userId = reqs[r].user

\* the stored comments of a community
Matching(id) == {c \in DOMAIN cComments : CCFound(c) /\ cComments[c].communityId = id}

\* res is the page of Matching(id) that starts after its skip newest comments
\* and holds at most limit comments, newest first
Paged(res, id, limit, skip) ==
    /\ \A i \in 1..Len(res) :
          /\ res[i] \in Matching(id)
          /\ Cardinality({c \in Matching(id) : cComments[c].date > cComments[res[i]].date})
                = skip + i - 1
    /\ \A i, j \in 1..Len(res) : i < j => cComments[res[i]].date > cComments[res[j]].date
    /\ Len(res) = IF Cardinality(Matching(id)) <= skip THEN 0
                  ELSE IF Cardinality(Matching(id)) - skip <= limit
                       THEN Cardinality(Matching(id)) - skip
                       ELSE limit

C15_DeleteOne ==
    [][/\ \A r \in Reqs :
             reqs'[r].route = "DELETE /:communityId/comment/:commentId" =>
                \A d \in DOMAIN cComments :
                   cComments'[d] =
                      IF /\ d = reqs'[r].commentId
                         /\ CCFound(d)
                         /\ cComments[d].communityId = reqs'[r].id
                      THEN NoDoc ELSE cComments[d]
       /\ ret'.op = "ActionComment.delete" =>
             \A d \in DOMAIN aComments :
                aComments'[d] =
                   IF /\ d = ret'.args.commentId
                      /\ ACFound(d)
                      /\ aComments[d].actionId = ret'.args.actionId
                   THEN NoDoc ELSE aComments[d]]_vars

\* a delete request that named a stored comment of another community
C15_Witness ==
    \E r \in Reqs :
        /\ Answered(reqs[r], "DELETE /:communityId/comment/:commentId")
        /\ reqs[r].id \in CommunityIds
        /\ CCFound(reqs[r].commentId)
        /\ cComments[reqs[r].commentId].communityId # reqs[r].id
        /\ \E d \in DOMAIN cComments : d # reqs[r].commentId /\ CCFound(d)

(***************************************************************************)
(* Embedded cooperative actions                                            *)
(***************************************************************************)
\* the fields of an embedded action that a caller supplies
Supplied(a) == [name |-> a.name, description |-> a.description, date |-> a.date]

\* the step is a successful call of op on a cooperative
CoopSucceeded(op) == ret'.op = op /\ ret'.err = Null

\* the step leaves the cooperative's own fields and the other cooperatives alone
CoopFieldsKept(id) ==
    /\ coops'[id].name = coops[id].name
    /\ coops'[id].yearOfConst = coops[id].yearOfConst
    /\ coops'[id].area = coops[id].area
    /\ coops'[id].meters = coops[id].meters
    /\ \A c \in DOMAIN coops : c # id => coops'[c] = coops[c]

\* C16: a successful addAction appends exactly one action to the cooperative's
\* actions; a successful updateAction changes name, date and description of
\* exactly the action with the given sub-id; a successful deleteAction removes
\* exactly that action; every other embedded action and the cooperative's
\* name, yearOfConst, area and meters are unchanged.
C16_SubDocuments ==
    [][LET id == ret'.args.id
           sub == ret'.args.sub
           old == coops[id].actions
           new == coops'[id].actions
       IN  /\ CoopSucceeded("Cooperative.addAction") =>
                /\ CoopFieldsKept(id)
                /\ Len(new) = Len(old) + 1
                /\ SubSeq(new, 1, Len(old)) = old
                /\ Supplied(new[Len(new)]) = ret'.args.action
                /\ \A i \in 1..Len(old) : old[i]._id # new[Len(new)]._id
           /\ CoopSucceeded("Cooperative.updateAction") =>
                /\ CoopFieldsKept(id)
                /\ Len(new) = Len(old)
                /\ \A i \in 1..Len(old) :
                      IF old[i]._id = sub
                      THEN new[i]._id = sub /\ Supplied(new[i]) = ret'.args.action
                      ELSE new[i] = old[i]
                /\ \E i \in 1..Len(old) : old[i]._id = sub
           /\ CoopSucceeded("Cooperative.deleteAction") =>
                /\ CoopFieldsKept(id)
                /\ Len(new) = Len(old) - 1
                /\ new = SelectSeq(old, LAMBDA a : a._id # sub)]_vars

\* an embedded action was deleted and another one is left
C16_Witness ==
    /\ ret.op = "Cooperative.deleteAction"
    /\ ret.err = Null
    /\ Len(coops[ret.args.id].actions) = 1

(***************************************************************************)
(* Logging                                                                 *)
(***************************************************************************)
\* the routes that check the shape of their id
ValidatingRoutes ==
    {"GET /:id", "DELETE /:id", "PUT /join/:id", "GET /top/:id", "PUT /rate/:id",
     "POST /communityPicture/:communityId"}

RejectedById(req) == req.route \in ValidatingRoutes /\ ~IsMongoId(req.id)

\* category and type of the log entry of a route
RouteLog(route) ==
    CASE route = "POST /:communityId/comment" -> <<"Community Comments", "create">>
      [] route = "GET /:communityId/comments" -> <<"Community Comments", "get">>
      [] route = "DELETE /:communityId/comment/:commentId" -> <<"Community Comments", "delete">>
      [] route = "POST /" -> <<"Community", "create">>
      [] route = "GET /:id" -> <<"Community", "get">>
      [] route = "GET /list" -> <<"Community", "listAll">>
      [] route = "DELETE /:id" -> <<"Community", "delete">>
      [] route = "PUT /join/:id" -> <<"Community", "join">>
      [] route = "GET /top/:id" -> <<"Community", "top">>
      [] route = "POST /communityPicture/:communityId" -> <<"Community Picture", "create">>
      [] route = "PUT /rate/:id" -> <<"Community", "rate">>

\* C17: a request that passes id validation issues exactly one Log.create with
\* the requesting user's id and the route's category and type, whether or not
\* the delegated model operation succeeds; a request rejected by id validation
\* issues none.
C17_LoggedOnce ==
    \A r \in Reqs : reqs[r].pc # "idle" =>
        IF RejectedById(reqs[r]) THEN reqs[r].logs = << >>
        ELSE /\ Len(reqs[r].logs) = 1
             /\ reqs[r].logs[1].userId = reqs[r].user
             /\ <<reqs[r].logs[1].category, reqs[r].logs[1].type>> = RouteLog(reqs[r].route)

\* a request whose model operation failed after the id was accepted
C17_Witness ==
    \E r \in Reqs :
        /\ reqs[r].pc = "done"
        /\ ~RejectedById(reqs[r])
        /\ reqs[r].err \notin {Null, ValidationErrors}
        /\ Len(reqs[r].logs) = 1

(***************************************************************************)
(* Tips                                                                    *)
(***************************************************************************)
\* the step shows no tip and leaves the list of suggestions and its index alone
NoTipShown ==
    /\ scope'.idx = scope.idx
    /\ scope'.lastActionUsed = scope.lastActionUsed
    /\ scope'.suggestedActions = scope.suggestedActions
    /\ scope'.tip = scope.tip

\* the step shows the next tip: the suggestion after the last one used, or,
\* with no suggestion left, what the check for rehearsal leads to
NextTipShown ==
    LET i == IF scope.lastActionUsed THEN scope.idx + 1 ELSE scope.idx
    IN  /\ scope'.lastActionUsed = FALSE
        /\ IF Len(scope.suggestedActions) > i
           THEN /\ scope'.idx = i
                /\ scope'.screen = "tip"
                /\ scope'.tip = scope.suggestedActions[i + 1]
                /\ scope'.popup = "none"
           ELSE \/ scope'.popup \in {"noRehearse", "changeSetting", "askRehearse"}
                \/ /\ scope'.idx = 0
                   /\ scope'.screen = "tip"
                   /\ scope'.tip = scope'.suggestedActions[1]

\* C18: addActions with maxNumberOfActions (6) or more actions in progress
\* shows no new action, only the too-many alert and then the user's action
\* list; with fewer than preferredNumberOfActions (3) it shows the next tip at
\* once; with 3 to 5 it asks, and the next tip is shown only if the user
\* chooses to add more.
C18_TipsGated ==
    [][/\ ret'.op = "addActions" =>
             IF scope.inProgress >= maxNumberOfActions
             THEN scope'.popup = "tooMany" /\ NoTipShown /\ scope'.screen = scope.screen
             ELSE IF scope.inProgress < preferredNumberOfActions
             THEN NextTipShown
             ELSE scope'.popup = "askConfirmation" /\ NoTipShown
                  /\ scope'.screen = scope.screen
       /\ (ret'.op = "alert.then" /\ scope.popup = "tooMany") =>
             scope'.popup = "none" /\ NoTipShown /\ scope'.screen = "yourActions"
       /\ ret'.op = "askConfirmation.then" =>
             IF ret'.args.res
             THEN scope'.popup = "none" /\ NoTipShown /\ scope'.screen = scope.screen
             ELSE NextTipShown]_vars

\* the user had 3 to 5 actions in progress, chose to add more and sees a tip
C18_Witness ==
    /\ ret.op = "askConfirmation.then"
    /\ ~ret.args.res
    /\ scope.numberOfCurrentActions \in {Num(n) : n \in preferredNumberOfActions..(maxNumberOfActions - 1)}
    /\ scope.screen = "tip"
    /\ scope.popup = "none"

\* C20: the list of suggested actions is reloaded only in the callback of the
\* state change's response, and only when the action used was the last of the
\* suggested actions (or was none of them); showNextTip may have run since the
\* request was sent.
C20_ReloadAfterLast ==
    [][inflight'.queries > inflight.queries =>
          /\ ret'.op = "User.actionState.then"
          /\ \E i \in 1..Len(inflight.states) :
                /\ inflight'.states = RemoveAt(inflight.states, i)
                /\ inflight.states[i].last]_vars

(***************************************************************************)
(* Achievement race                                                        *)
(***************************************************************************)
\* the value a join request computed for the counter
Computed(req) == IF req.old >= req.n THEN req.old ELSE req.n

\* the join request of slot r has written the counter
Wrote(r) ==
    /\ reqs[r].route = "PUT /join/:id"
    /\ reqs[r].pc = "done"
    /\ "achievements.updateAchievement" \in reqs[r].invoked

\* C19: the achievement update is a read followed by a write; join requests
\* of one user that overlap can interleave so that the stored
\* 'communitiesJoined' is lower than a value stored earlier.  The counter is
\* lowered only by the write of a request whose read of the counter is out of
\* date, and that write is max(counter read, number of communities read).
C19_LostMaxUpdate ==
    [][\A u \in Users : achievement'[u] < achievement[u] =>
          \E r \in Reqs :
             /\ reqs[r].pc = "achievement" /\ reqs'[r].pc = "done"
             /\ reqs[r].user = u
             /\ reqs[r].old < achievement[u]
             /\ achievement'[u] = Computed(reqs[r])]_vars

\* two requests of one user have written, and the counter holds the value of
\* one of them, lower than the value the other one wrote
C19_Witness ==
    \E r, q \in Reqs :
        /\ r # q /\ Wrote(r) /\ Wrote(q)
        /\ reqs[r].user = reqs[q].user
        /\ achievement[reqs[r].user] = Computed(reqs[q])
        /\ Computed(reqs[r]) > Computed(reqs[q])
        /\ reqs[q].old < Computed(reqs[r])

\* C21: rehearseActions recommends the oldest local actions.  When it runs
\* with at least one candidate, suggestedActions afterwards holds only actions
\* of the lists (done, declined, na) whose toRehearse flag is set, in ascending
\* order of latestDate, and at most preferredNumberOfActions of them; with no
\* candidate it shows the no-actions alert and leaves suggestedActions and idx
\* as they were.
C21_RehearseOldest ==
    [][ret'.op = "rehearseActions" =>
          LET sa == scope'.suggestedActions
          IN  IF ConcatRehearse(currentUser, Len(RehearseTypes)) = << >>
              THEN /\ scope'.popup = "noRehearse"
                   /\ sa = scope.suggestedActions
                   /\ scope'.idx = scope.idx
              ELSE /\ \A i \in 1..Len(sa) :
                         /\ sa[i] \in LocalIds
                         /\ currentUser.toRehearse[currentUser.type[sa[i]]]
                   /\ \A i, j \in 1..Len(sa) :
                         i < j => currentUser.latestDate[sa[i]] <= currentUser.latestDate[sa[j]]
                   /\ Len(sa) <= preferredNumberOfActions]_vars

\* C22: in the join handler the response is sent exactly once per request,
\* with the outcome of addMember, and achievements.updateAchievement is called
\* only when addMember succeeded and the user's communities were fetched
\* without error: its update function never reads the length of an undefined
\* list.
C22_JoinResponds ==
    \A r \in Reqs :
        LET req == reqs[r]
        IN  req.route = "PUT /join/:id" =>
              /\ req.sends <= 1
              /\ req.pc # "addMember" => req.sends = 1
              /\ "achievements.updateAchievement" \in req.invoked =>
                    /\ "Community.addMember" \in req.invoked
                    /\ req.err = Null
                    /\ req.n # NoLength
              /\ req.pc # "threw"

\* the handlers and callbacks in which showNextTip runs
TipOps ==
    {"showNextTip", "addActions", "askConfirmation.then", "askRehearse.then",
     "rehearseActions"}

\* the last handler ran showNextTip, which went to the view of an action
Navigated ==
    /\ ret.op \in TipOps
    /\ scope.popup = "none"
    /\ scope.screen = "tip"
    /\ ~(ret.op = "askConfirmation.then" /\ ret.args.res)

C24_ShownBounds ==
    \A type \in ShowTypes :
        /\ maxNumberShow[type] >= sNr
        /\ maxNumberShow[type] <= IF Size(currentUser, type) > sNr
                                  THEN Size(currentUser, type) ELSE sNr

\* a load of the comments of the action has been answered
Loaded(actionId) ==
    \E i \in 1..Len(loads) : loads[i].actionId = actionId /\ loads[i].pc = "done"

\* C25: hasMoreComments(actionId) is true before any load of the comments of
\* that action has completed; when a load completes it is true exactly when
\* the load returned at least nrToLoad comments, and the load appends its
\* comments to $scope.comments, removing none that was loaded before.
C25_PagingFlag ==
    /\ [](\A a \in QueryActionIds : ~Loaded(a) => HasMoreComments(a))
    /\ [](ret.op = "Actions.getComments.then" =>
            (HasMoreComments(ret.args.actionId) <=> ret.args.n >= nrToLoad))
    /\ [][ret'.op = "Actions.getComments.then" =>
            /\ Len(comments') = Len(comments) + ret'.args.n
            /\ SubSeq(comments', 1, Len(comments)) = comments
            /\ \A k \in 1..ret'.args.n :
                  comments'[Len(comments) + k].actionId = ret'.args.actionId]_vars

\* a full load and a shorter one of the same action have been answered, the
\* shorter one last
C25_Witness ==
    /\ ret.op = "Actions.getComments.then"
    /\ ret.args.n = nrToLoad - 1
    /\ Len(comments) = 2 * nrToLoad - 1
    /\ ~HasMoreComments(ret.args.actionId)
    /\ \E a \in QueryActionIds : ~Loaded(a) /\ HasMoreComments(a)

\* no stored document changes or goes
Kept(coll, after) == \A i \in DOMAIN coll : coll[i] # NoDoc => after[i] = coll[i]

\* C26: seeding is idempotent.  createIfNotExist creates a document only when
\* none has the key value and else leaves the stored one as it is; the default
\* user is there before any action and every seeded action has that user's id
\* as authorId; so after any number of runs there is one default user and one
\* action of each name, exactly so once a run has exited with 0.  A run exits
\* with status 1 if a step reported an error and with 0 otherwise.
C26_SeedIdempotent ==
    /\ [](/\ Cardinality(WithKey(userDocs, DefaultEmail)) <= 1
          /\ \A i \in 1..MaxSeeded : Cardinality(WithKey(actions, DataNames[i])) <= 1
          /\ \A a \in SeedActionIds :
                actions[a] # NoDoc => actions[a].authorId \in WithKey(userDocs, DefaultEmail))
    /\ []((seed.pc = "exited" /\ seed.exit = "0") =>
             /\ Cardinality(WithKey(userDocs, DefaultEmail)) = 1
             /\ \A i \in 1..MaxSeeded : Cardinality(WithKey(actions, DataNames[i])) = 1)
    /\ [](seed.pc \in {"exited", "stuck"} =>
             /\ seed.pc = "exited"
             /\ seed.exit = IF seed.err # Null THEN "1" ELSE "0")
    /\ [][Kept(userDocs, userDocs') /\ Kept(actions, actions')]_vars

\* the stored document the call rated holds a rating of the call's user
RatingStored(call) ==
    IF call.op = "ActionComment.rate" THEN call.user \in DOMAIN aComments[call.id].ratings
    ELSE RIndex(actions[call.id].ratings, call.user) # 0

\* C27: when rate calls of two different users on the same comment or action
\* overlap, each finding, modifying and saving the document, and both call
\* back with success, the stored document holds the ratings of both users: no
\* successful update is lost.
C27_NoLostRating ==
    \A s, t \in Slots :
        (/\ s # t
         /\ calls[s].pc = "done" /\ calls[s].err = Null
         /\ calls[t].pc = "done" /\ calls[t].err = Null
         /\ calls[s].op = calls[t].op /\ calls[s].id = calls[t].id
         /\ calls[s].user # calls[t].user)
        => RatingStored(calls[s]) /\ RatingStored(calls[t])

=============================================================================
